---- MODULE Spec2Model ----
(***************************************************************************)
(* PopQuiz: peer-to-peer trivia game.  One browser tab created the room    *)
(* (the host), the others joined it by code (guests).  Every tab runs the  *)
(* same App component; the role is derived from the replicated player list.*)
(* The model follows App (handleNetworkMessage, handlePlayerAction, the    *)
(* game loop, handleRoundEnd, processNextRound and the UI handlers) and    *)
(* the mesh adapter's send (which never adds a senderId).                  *)
(***************************************************************************)
EXTENDS Integers, Sequences, FiniteSets, TLC

VARIABLES
    gs,            \* gameStateRef.current of every tab
    pendingJoin,   \* pendingJoinRef.current of every tab
    joinLoop,      \* join retry effect of every tab: interval alive, first attempt
                   \* pending, attemptCount, first attempts left over from earlier
                   \* runs, JOIN_REQUESTs sent so far
    loop,          \* game-loop interval of every tab is alive
    roundTimers,   \* pending setTimeout(processNextRound, 3000) of every tab
    resendTimers,  \* pending second STATE_UPDATE sends after an accepted join
    startGen,      \* handleStartGame suspended at its await: the render closure it holds
    bgGen,         \* checkForMoreQuestions suspended at its await (isGeneratingMoreRef)
    now,           \* Date.now(), in seconds
    net,           \* messages in flight on the mesh
    sent,          \* messages handed to multiplayer.send by the last step
    lastOp,        \* the handler the last step ran
    match,         \* GameRound: the last call of checkAnswer and what it returned
    mp             \* MultiplayerService: the fields of the adapter, its timeouts, its last call

vars == <<gs, pendingJoin, joinLoop, loop, roundTimers, resendTimers, startGen,
          bgGen, now, net, sent, lastOp, match, mp>>

---------------------------------------------------------------------------
(* Bounds of the exploration *)

NumGuests == 1          \* guest tabs besides the creator
ClockStep == 15         \* the clock advances in steps of this many seconds
MaxNow == 15            \* the clock stops here
MaxIndex == 0           \* the host alone: rounds are explored up to this question index
MaxGameIndex == 5       \* the round machine: rounds are explored up to this question index
MaxGameNow == 75        \* the round machine: the clock stops here
MaxNet == 1             \* messages in flight at once
MaxTimers == 1          \* pending timeouts of one kind per tab

(* Program constants *)

PointsPerAnswer == 10   \* score: p.score + 10
DefaultRoundDuration == 15
DefaultPointsToWin == 50
MinPointsToWin == 30
maxAttempts == 20
JoinInterval == 2000            \* setInterval(tryJoin, 2000)
JoinTimeoutPerAttempt == 1500   \* overall timeout: maxAttempts * 1500
NumDefaultQuestions == 8

---------------------------------------------------------------------------
(* Values *)

Undefined == "undefined"
NoTime == 0 - 1                      \* answerTime: undefined
NoSender == "none"                   \* a message without senderId
NoType == "none"                     \* a message without type
\* a payload that is no object: typeof is 'string', 'number', 'undefined', ...
NonObject(type) == [typeof |-> type]
NoMatch == [called |-> FALSE]        \* checkAnswer has not been called
Null == [name |-> "null", avatar |-> "null"]   \* pendingJoinRef.current = null
NoClosure == [pending |-> FALSE]

CreatorId == "h"
AllGuests == <<"g1", "g2", "g3">>
GuestIds == {AllGuests[i] : i \in 1..NumGuests}
PeerIds == {CreatorId} \cup GuestIds
Bystander == "g9"                    \* another tab of the room
RoomCode == <<"R", "O", "O", "M">>     \* the code of the room, as typed by a guest
NoRoom == <<>>                         \* roomId: ''

\* Math.random(): a number of [0, 1), here the base-36 digits toString(36)
\* prints after the point; 0 has none
RoomDraw == <<"r", "o", "o", "m", "7", "k">>
RandomFractions == {<<>>, RoomDraw}
JoinCodes == {RoomCode, NoRoom}        \* the room code field of the landing page

JoinProfile == [name |-> "Ann", avatar |-> "cat"]
Profiles == {JoinProfile, [name |-> "Bob", avatar |-> "dog"]}
Texts == {"mars"}
Actions == {"READY_TOGGLE", "ANSWER_CORRECT", "ANSWER_WRONG"}

DEFAULT_QUESTIONS == [i \in 1..NumDefaultQuestions |-> i]
\* what generateQuestions may return: nothing (or a throw), or a batch
GeneratedBatches == {<<>>, <<101>>}
GameBatches == {<<>>, <<101, 102, 103>>}
MoreBatches == {<<>>, <<201>>}

INITIAL_SETTINGS ==
    [roundDuration |-> DefaultRoundDuration, pointsToWin |-> DefaultPointsToWin,
     deckType |-> "classic", aiTopic |-> ""]

\* values the Lobby controls are moved to
Decks == {"ai"}
Topics == {"space"}
Durations == {DefaultRoundDuration}
PointsOptions == {DefaultPointsToWin}

InitialGameState ==
    [roomId |-> NoRoom, status |-> "landing", players |-> <<>>,
     currentQuestionIndex |-> 0, questions |-> <<>>,
     settings |-> INITIAL_SETTINGS, roundStartTime |-> 0]

---------------------------------------------------------------------------
(* Pure helpers *)

Range(s) == {s[i] : i \in DOMAIN s}

Map(s, F(_)) == [i \in DOMAIN s |-> F(s[i])]

HasId(players, id) == \E i \in DOMAIN players : players[i].id = id

CountId(players, id) == Cardinality({i \in DOMAIN players : players[i].id = id})

PlayerOf(players, id) ==
    players[CHOOSE i \in DOMAIN players :
               /\ players[i].id = id
               /\ \A j \in DOMAIN players : players[j].id = id => i <= j]

\* isLocalHost: players.find(p => p.isHost)?.id === localPlayerId
isLocalHost(players, me) ==
    /\ \E i \in DOMAIN players : players[i].isHost
    /\ LET first == CHOOSE i \in DOMAIN players :
                       /\ players[i].isHost
                       /\ \A j \in DOMAIN players : players[j].isHost => i <= j
       IN  players[first].id = me

\* updateState: { ...gameStateRef.current, ...updates }
updateState(cur, updates) ==
    [f \in DOMAIN cur \cup DOMAIN updates |->
        IF f \in DOMAIN updates THEN updates[f] ELSE cur[f]]

NewPlayer(id, name, avatar, host, ready) ==
    [id |-> id, name |-> name, avatar |-> avatar, score |-> 0, streak |-> 0,
     isHost |-> host, isReady |-> ready, hasAnsweredRound |-> FALSE,
     isBot |-> FALSE, lastWrongGuess |-> Undefined, answerTime |-> NoTime,
     finalAnswer |-> Undefined]

\* The wire message built by a caller and passed through multiplayer.send,
\* which copies it and adds only a timestamp.
Msg(from, type, payload, senderId) ==
    [from |-> from, type |-> type, payload |-> payload, senderId |-> senderId]

\* broadcast(state): { type: 'STATE_UPDATE', payload: state } -- no senderId
broadcast(me, state) == Msg(me, "STATE_UPDATE", state, NoSender)

\* variant: the periodic send carries no senderId either
StateUpdateAnonymous(me, state) == Msg(me, "STATE_UPDATE", state, "none")

\* the STATE_UPDATE sends that do carry senderId: localPlayerId
StateUpdateFrom(me, state) == Msg(me, "STATE_UPDATE", state, me)

---------------------------------------------------------------------------
(* Host logic as functions of the state: handlePlayerAction *)

\* variant: the toggle reaches every player
ReadyToggledAll(players, playerId) ==
    Map(players, LAMBDA p : [p EXCEPT !.isReady = ~p.isReady])

ReadyToggled(players, playerId) ==
    Map(players, LAMBDA p : IF p.id = playerId
                            THEN [p EXCEPT !.isReady = ~p.isReady] ELSE p)

\* variant: a listed player scores again in the same round
CanScoreAgain(players, playerId) == HasId(players, playerId)

\* ANSWER_CORRECT is taken only for a listed player who has not answered
CanScore(players, playerId) ==
    HasId(players, playerId) /\ ~PlayerOf(players, playerId).hasAnsweredRound

\* variant: the host rewards only the guess it verifies
AnsweredCorrectVerified(players, playerId, data, roundStartTime, t) ==
    Map(players, LAMBDA p : IF p.id = playerId /\ data = "mars"
                            THEN [p EXCEPT !.score = p.score + PointsPerAnswer,
                                           !.hasAnsweredRound = TRUE,
                                           !.answerTime = t - roundStartTime,
                                           !.finalAnswer = data]
                            ELSE p)

\* variant: a correct answer rewards every player
AnsweredCorrectAll(players, playerId, data, roundStartTime, t) ==
    Map(players, LAMBDA p : [p EXCEPT !.score = p.score + PointsPerAnswer,
                                      !.hasAnsweredRound = TRUE,
                                      !.answerTime = t - roundStartTime,
                                      !.finalAnswer = IF data = "" THEN Undefined ELSE data])

AnsweredCorrect(players, playerId, data, roundStartTime, t) ==
    Map(players, LAMBDA p : IF p.id = playerId
                            THEN [p EXCEPT !.score = p.score + PointsPerAnswer,
                                           !.hasAnsweredRound = TRUE,
                                           !.answerTime = t - roundStartTime,
                                           !.finalAnswer = IF data = "" THEN Undefined ELSE data]
                            ELSE p)

\* variant: a wrong guess closes the round for the player
AnsweredWrongCloses(players, playerId, data) ==
    Map(players, LAMBDA p : IF p.id = playerId
                            THEN [p EXCEPT !.hasAnsweredRound = TRUE,
                                           !.lastWrongGuess = data, !.finalAnswer = data]
                            ELSE p)

\* variant: a wrong guess costs points
AnsweredWrongPenalty(players, playerId, data) ==
    Map(players, LAMBDA p : IF p.id = playerId
                            THEN [p EXCEPT !.score = p.score - PointsPerAnswer,
                                           !.lastWrongGuess = data, !.finalAnswer = data]
                            ELSE p)

AnsweredWrong(players, playerId, data) ==
    Map(players, LAMBDA p : IF p.id = playerId
                            THEN [p EXCEPT !.lastWrongGuess = data, !.finalAnswer = data]
                            ELSE p)

stateChanged(state, playerId, action) ==
    CASE action = "READY_TOGGLE"   -> TRUE
      [] action = "ANSWER_CORRECT" -> CanScore(state.players, playerId)
      [] action = "ANSWER_WRONG"   -> TRUE
      [] OTHER                     -> FALSE

newPlayers(state, playerId, action, data, t) ==
    CASE action = "READY_TOGGLE"   -> ReadyToggled(state.players, playerId)
      [] action = "ANSWER_CORRECT" ->
            IF CanScore(state.players, playerId)
            THEN AnsweredCorrect(state.players, playerId, data, state.roundStartTime, t)
            ELSE state.players
      [] action = "ANSWER_WRONG"   -> AnsweredWrong(state.players, playerId, data)
      [] OTHER                     -> state.players

\* the state handlePlayerAction leaves in gameStateRef.current
handlePlayerAction(state, playerId, action, data, t) ==
    IF stateChanged(state, playerId, action)
    THEN updateState(state, [players |-> newPlayers(state, playerId, action, data, t)])
    ELSE state

\* what handlePlayerAction sends
handlePlayerActionSends(me, state, playerId, action, data, t) ==
    IF stateChanged(state, playerId, action)
    THEN <<broadcast(me, handlePlayerAction(state, playerId, action, data, t))>>
    ELSE <<>>

---------------------------------------------------------------------------
(* Host logic as functions of the state: the round machine *)

allAnswered(state) == \A i \in DOMAIN state.players : state.players[i].hasAnsweredRound

\* variant: the round lasts one instant longer
timeUpStrict(state, t) == t - state.roundStartTime > state.settings.roundDuration

timeUp(state, t) == t - state.roundStartTime >= state.settings.roundDuration

\* variant: the target must be exceeded
potentialWinnersAbove(state) ==
    {i \in DOMAIN state.players : state.players[i].score > state.settings.pointsToWin}

potentialWinners(state) ==
    {i \in DOMAIN state.players : state.players[i].score >= state.settings.pointsToWin}

topScore(state) ==
    CHOOSE s \in {state.players[i].score : i \in potentialWinners(state)} :
        \A i \in potentialWinners(state) : state.players[i].score <= s

runnersUp(state) ==
    {i \in potentialWinners(state) : state.players[i].score = topScore(state)}

\* variant: the hard stop comes one question late
questionsExhaustedLate(state) ==
    state.currentQuestionIndex >= Len(state.questions)

questionsExhausted(state) ==
    state.currentQuestionIndex >= Len(state.questions) - 1

\* variant: a tie at the top ends the game
isGameOverOnTie(state) ==
    \/ Cardinality(potentialWinners(state)) >= 1
    \/ questionsExhausted(state)

isGameOver(state) ==
    \/ Cardinality(potentialWinners(state)) = 1
    \/ /\ Cardinality(potentialWinners(state)) > 1
       /\ Cardinality(runnersUp(state)) = 1
    \/ questionsExhausted(state)

\* variant: the next round keeps the completion flags
resetPlayersKeepFlag(players) ==
    Map(players, LAMBDA p : [p EXCEPT !.lastWrongGuess = Undefined,
                                      !.answerTime = NoTime,
                                      !.finalAnswer = Undefined])

resetPlayers(players) ==
    Map(players, LAMBDA p : [p EXCEPT !.hasAnsweredRound = FALSE,
                                      !.lastWrongGuess = Undefined,
                                      !.answerTime = NoTime,
                                      !.finalAnswer = Undefined])

\* the state processNextRound leaves in gameStateRef.current
processNextRound(state, t) ==
    IF isGameOver(state)
    THEN updateState(state, [status |-> "game_over"])
    ELSE updateState(state, [players |-> resetPlayers(state.players),
                             currentQuestionIndex |-> state.currentQuestionIndex + 1,
                             status |-> "playing",
                             roundStartTime |-> t])

\* variant: a classic deck is replenished as well
needsMoreQuestionsAnyDeck(state) ==
    Len(state.questions) - state.currentQuestionIndex < 5

\* checkForMoreQuestions starts a generation
needsMoreQuestions(state) ==
    /\ state.settings.deckType = "ai"
    /\ Len(state.questions) - state.currentQuestionIndex < 5

\* players of handleStartGame's final updateState
startPlayers(players) ==
    Map(players, LAMBDA p : [p EXCEPT !.score = 0,
                                      !.hasAnsweredRound = FALSE,
                                      !.lastWrongGuess = Undefined,
                                      !.answerTime = NoTime,
                                      !.finalAnswer = Undefined])

\* players of handleRestart's updateState
restartPlayers(players) ==
    Map(players, LAMBDA p : [p EXCEPT !.score = 0,
                                      !.isReady = FALSE,
                                      !.hasAnsweredRound = FALSE,
                                      !.lastWrongGuess = Undefined,
                                      !.answerTime = NoTime,
                                      !.finalAnswer = Undefined])

---------------------------------------------------------------------------
(* handleNetworkMessage as functions of the receiver's state *)

\* typeof msg.payload
typeof(payload) == IF "typeof" \in DOMAIN payload THEN payload.typeof ELSE "object"

\* variant: any payload makes a player
validJoinPayloadAny(payload) == TRUE

\* case 'JOIN_REQUEST': msg.payload && msg.payload.name && msg.payload.avatar
validJoinPayload(payload) == payload.name # "" /\ payload.avatar # ""

\* case 'STATE_UPDATE': msg.payload && typeof msg.payload === 'object'
validStatePayload(payload) == typeof(payload) = "object"

\* case 'PLAYER_ACTION': msg.payload && msg.payload.action
validActionPayload(payload) == payload.action # ""

\* variant: no playerExists check
joinAcceptedAgain(state, me, msg) ==
    /\ isLocalHost(state.players, me)
    /\ validJoinPayload(msg.payload)

\* case 'JOIN_REQUEST' appends a player
joinAccepted(state, me, msg) ==
    /\ isLocalHost(state.players, me)
    /\ validJoinPayload(msg.payload)
    /\ ~HasId(state.players, msg.senderId)

\* variant: a tab takes a snapshot only while it holds none
shouldAcceptUpdateFirst(state, me) == Len(state.players) = 0

\* variant: every tab takes a snapshot
shouldAcceptUpdateAlways(state, me) == TRUE

\* variant: only a tab that already lists itself as a guest takes a snapshot
shouldAcceptUpdateListed(state, me) ==
    HasId(state.players, me) /\ ~isLocalHost(state.players, me)

\* case 'STATE_UPDATE': shouldAcceptUpdate
shouldAcceptUpdate(state, me) ==
    \/ ~isLocalHost(state.players, me)
    \/ Len(state.players) = 0
    \/ (state.status = "lobby" /\ Len(state.players) = 0)

profileUpdated(players, playerId, name, avatar) ==
    Map(players, LAMBDA p : IF p.id = playerId
                            THEN [p EXCEPT !.name = name, !.avatar = avatar] ELSE p)

\* variant: any peer applies a profile update
playerUpdateAcceptedAnywhere(state, me, msg) ==
    /\ msg.payload.name # "" /\ msg.payload.avatar # ""

playerUpdateAccepted(state, me, msg) ==
    /\ isLocalHost(state.players, me)
    /\ msg.payload.name # "" /\ msg.payload.avatar # ""

\* a message handleNetworkMessage returns on before its switch
dropped(me, msg) ==
    msg.senderId = me \/ msg.type = NoType \/ msg.senderId = NoSender

\* gameStateRef.current after handleNetworkMessage(msg)
onMessage(state, me, msg, t) ==
    IF dropped(me, msg) THEN state
    ELSE CASE msg.type = "JOIN_REQUEST" ->
                IF joinAccepted(state, me, msg)
                THEN updateState(state,
                        [players |-> Append(state.players,
                            NewPlayer(msg.senderId, msg.payload.name, msg.payload.avatar,
                                      FALSE, FALSE))])
                ELSE state
           [] msg.type = "STATE_UPDATE" ->
                IF shouldAcceptUpdate(state, me) /\ validStatePayload(msg.payload)
                THEN updateState(state, msg.payload)
                ELSE state
           [] msg.type = "PLAYER_ACTION" ->
                IF isLocalHost(state.players, me) /\ validActionPayload(msg.payload)
                THEN handlePlayerAction(state, msg.senderId, msg.payload.action,
                                        msg.payload.data, t)
                ELSE state
           [] msg.type = "PLAYER_UPDATE" ->
                IF playerUpdateAccepted(state, me, msg)
                THEN updateState(state,
                        [players |-> profileUpdated(state.players, msg.senderId,
                                                    msg.payload.name, msg.payload.avatar)])
                ELSE state
           [] OTHER -> state

\* what handleNetworkMessage(msg) hands to multiplayer.send
onMessageSends(state, me, msg, t) ==
    IF dropped(me, msg) THEN <<>>
    ELSE CASE msg.type = "JOIN_REQUEST" ->
                IF joinAccepted(state, me, msg)
                THEN <<StateUpdateFrom(me, onMessage(state, me, msg, t))>>
                ELSE <<>>
           [] msg.type = "PLAYER_ACTION" ->
                IF isLocalHost(state.players, me) /\ validActionPayload(msg.payload)
                THEN handlePlayerActionSends(me, state, msg.senderId, msg.payload.action,
                                             msg.payload.data, t)
                ELSE <<>>
           [] msg.type = "PLAYER_UPDATE" ->
                IF playerUpdateAccepted(state, me, msg)
                THEN <<broadcast(me, onMessage(state, me, msg, t))>>
                ELSE <<>>
           [] OTHER -> <<>>

\* updateState was called with a players array (a new array identity)
onMessageTouchesPlayers(state, me, msg) ==
    /\ ~dropped(me, msg)
    /\ CASE msg.type = "JOIN_REQUEST"  -> joinAccepted(state, me, msg)
         [] msg.type = "STATE_UPDATE"  ->
                shouldAcceptUpdate(state, me) /\ validStatePayload(msg.payload)
         [] msg.type = "PLAYER_ACTION" ->
                /\ isLocalHost(state.players, me)
                /\ validActionPayload(msg.payload)
                /\ stateChanged(state, msg.senderId, msg.payload.action)
         [] msg.type = "PLAYER_UPDATE" -> playerUpdateAccepted(state, me, msg)
         [] OTHER -> FALSE

---------------------------------------------------------------------------
(* Effects that re-run after a render *)

\* join retry effect: shouldSendJoinRequest
shouldSendJoinRequest(state, me, pj) ==
    /\ state.status = "lobby"
    /\ ~isLocalHost(state.players, me)
    /\ ~HasId(state.players, me)
    /\ pj # Null

NoJoinLoop == [active |-> FALSE, first |-> FALSE, attempts |-> 0, stale |-> 0, total |-> 0]

\* deps [status, players, roomId]: the cleanup clears the interval and the
\* overall timeout, but not the setTimeout(tryJoin, 1000) of its run; the body
\* starts a new interval, first attempt and attemptCount
joinEffect(old, new, me, pj, touched, jl) ==
    IF touched \/ new.status # old.status \/ new.roomId # old.roomId
    THEN [active |-> shouldSendJoinRequest(new, me, pj),
          first |-> shouldSendJoinRequest(new, me, pj),
          attempts |-> 0,
          stale |-> IF jl.first /\ jl.stale < MaxTimers THEN jl.stale + 1 ELSE jl.stale,
          total |-> jl.total]
    ELSE jl

\* game loop effect, deps [status]
gameLoopEffect(old, new, me, alive) ==
    IF new.status # old.status
    THEN isLocalHost(new.players, me) /\ new.status = "playing"
    ELSE alive

\* the Lobby component is rendered
lobbyShown(state, me) ==
    /\ state.status = "lobby"
    /\ ~(Len(state.players) = 0 /\ ~isLocalHost(state.players, me))

Op(name, p) == [op |-> name, peer |-> p, type |-> "", who |-> p, action |-> ""]

MsgOp(p, msg) ==
    [op |-> "handleNetworkMessage", peer |-> p, type |-> msg.type, who |-> msg.senderId,
     action |-> IF msg.type = "PLAYER_ACTION" THEN msg.payload.action ELSE ""]

\* a handler of tab p ran: it left `new` in gameStateRef.current and sent `out`
Commit(p, new, touched, out, op) ==
    /\ gs' = [gs EXCEPT ![p] = new]
    /\ loop' = [loop EXCEPT ![p] = gameLoopEffect(gs[p], new, p, loop[p])]
    /\ joinLoop' = [joinLoop EXCEPT
                      ![p] = joinEffect(gs[p], new, p, pendingJoin'[p], touched, joinLoop[p])]
    /\ sent' = out
    /\ lastOp' = op

---------------------------------------------------------------------------
(* MultiplayerService: the transport adapter of one tab.  The record holds the
   fields of the class, the timeouts it has pending, the rooms the transport
   is in, and what the last call of send did. *)

maxReconnectAttempts == 5
BackoffBase == 1000          \* 1000 * Math.pow(2, reconnectAttempts), in ms
BackoffCap == 10000          \* Math.min(..., 10000)
MaxJoinCalls == 7            \* joinRoom calls explored after one connect of the caller
MaxRetryTimers == 2          \* pending reconnect timeouts

OtherRoom == <<"Q", "U", "I", "Z">>
Rooms == {RoomCode, OtherRoom}
NullRoom == <<"null">>       \* this.room = null, this.currentRoomId = null
RemotePeers == {"p1"}        \* the peer ids the transport reports
DataTypes == {"PING", "PONG", "STATE_UPDATE"}

InitialTransport ==
    [room |-> NullRoom, sendAction |-> FALSE, isConnected |-> FALSE,
     connectionTimeout |-> FALSE, peerIds |-> {}, reconnectAttempts |-> 0,
     currentRoomId |-> NullRoom, peerCheckInterval |-> FALSE,
     retryTimers |-> <<>>,      \* setTimeout(() => { disconnect(); connect(...) }, delay)
     markTimers |-> 0,          \* setTimeout(..., 2000) of connect
     pingTimers |-> 0,          \* setTimeout(() => send(PING), 500) of onPeerJoin
     joined |-> {},             \* the rooms the transport has joined and not left
     joinCalls |-> 0,           \* joinRoom calls since the caller's connect
     allFailed |-> TRUE,        \* every one of them threw
     call |-> [op |-> "none", roomId |-> NullRoom],   \* the last method or callback that ran
     returned |-> FALSE,        \* what the last send returned
     handed |-> 0,              \* how often the last send called sendAction without a throw
     threw |-> FALSE]           \* sendAction threw in the last send

\* variant: the room object is dropped without room.leave()
disconnectKeepsRoom(m) ==
    LET cleared == [m EXCEPT !.connectionTimeout = FALSE, !.peerCheckInterval = FALSE]
    IN  IF m.room # NullRoom
        THEN [cleared EXCEPT !.room = NullRoom, !.sendAction = FALSE,
                             !.isConnected = FALSE, !.peerIds = {},
                             !.currentRoomId = NullRoom]
        ELSE cleared

disconnect(m) ==
    LET cleared == [m EXCEPT !.connectionTimeout = FALSE, !.peerCheckInterval = FALSE]
    IN  IF m.room # NullRoom
        THEN [cleared EXCEPT !.joined = @ \ {m.room}, !.room = NullRoom,
                             !.sendAction = FALSE, !.isConnected = FALSE,
                             !.peerIds = {}, !.currentRoomId = NullRoom]
        ELSE cleared

RECURSIVE pow2(_)
pow2(n) == IF n = 0 THEN 1 ELSE 2 * pow2(n - 1)

backoff(attempts) ==
    IF BackoffBase * pow2(attempts) <= BackoffCap THEN BackoffBase * pow2(attempts)
    ELSE BackoffCap

handleConnectionFailure(m, roomId) ==
    LET attempts == m.reconnectAttempts + 1
        counted == [m EXCEPT !.connectionTimeout = FALSE, !.reconnectAttempts = attempts]
    IN  IF attempts < maxReconnectAttempts
        THEN [counted EXCEPT !.retryTimers =
                 Append(@, [roomId |-> roomId, delay |-> backoff(attempts),
                            after |-> m.joinCalls])]
        ELSE [counted EXCEPT !.isConnected = FALSE]

\* connect(roomId, onMessage); joins: joinRoom returns a room instead of throwing
connect(m, roomId, joins) ==
    IF m.room # NullRoom /\ m.currentRoomId = roomId THEN m
    ELSE LET left == IF m.room # NullRoom /\ m.currentRoomId # roomId
                     THEN disconnect(m) ELSE m
             reset == [left EXCEPT !.currentRoomId = roomId, !.isConnected = FALSE,
                                   !.peerIds = {}, !.reconnectAttempts = 0,
                                   !.joinCalls = @ + 1]
         IN  IF joins
             THEN [reset EXCEPT !.room = roomId, !.joined = @ \cup {roomId},
                                !.connectionTimeout = TRUE, !.sendAction = TRUE,
                                !.peerCheckInterval = TRUE, !.markTimers = @ + 1,
                                !.allFailed = FALSE]
             ELSE handleConnectionFailure(reset, roomId)

\* variant: nothing is sent before the connection is marked ready
sendWhenReady(m, throws) ==
    IF ~m.sendAction \/ ~m.isConnected
    THEN [m EXCEPT !.returned = FALSE, !.handed = 0, !.threw = FALSE]
    ELSE IF throws THEN [m EXCEPT !.returned = FALSE, !.handed = 0, !.threw = TRUE]
    ELSE [m EXCEPT !.returned = TRUE, !.handed = 1, !.threw = FALSE]

\* send(msg); throws: this.sendAction(messageToSend) throws
send(m, throws) ==
    IF ~m.sendAction THEN [m EXCEPT !.returned = FALSE, !.handed = 0, !.threw = FALSE]
    ELSE IF throws THEN [m EXCEPT !.returned = FALSE, !.handed = 0, !.threw = TRUE]
    ELSE [m EXCEPT !.returned = TRUE, !.handed = 1, !.threw = FALSE]

tracked(m, peerId) ==
    [m EXCEPT !.peerIds = @ \cup {peerId}, !.isConnected = TRUE, !.connectionTimeout = FALSE]

\* the callback given to get(): data of the given type arrives from peerId
get(m, type, peerId, throws) ==
    IF type = "PING" THEN send(tracked(m, peerId), throws)
    ELSE tracked(m, peerId)

onPeerJoin(m, peerId) == [tracked(m, peerId) EXCEPT !.pingTimers = @ + 1]

onPeerLeave(m, peerId) == [m EXCEPT !.peerIds = @ \ {peerId}]

\* the callback of peerCheckInterval; peers: what room.getPeers() returns
peerCheck(m, peers) ==
    IF peers \subseteq m.peerIds THEN m
    ELSE [m EXCEPT !.peerIds = @ \cup peers, !.isConnected = TRUE,
                   !.connectionTimeout = FALSE]

\* the callback of connect's setTimeout(..., 2000)
markConnected(m) ==
    IF (~m.isConnected /\ m.peerIds = {}) \/ m.peerIds # {}
    THEN [m EXCEPT !.isConnected = TRUE, !.connectionTimeout = FALSE]
    ELSE m

---------------------------------------------------------------------------
(* Initial state: every tab shows the landing page *)

Init ==
    /\ gs = [p \in PeerIds |-> InitialGameState]
    /\ pendingJoin = [p \in PeerIds |-> Null]
    /\ joinLoop = [p \in PeerIds |-> NoJoinLoop]
    /\ loop = [p \in PeerIds |-> FALSE]
    /\ roundTimers = [p \in PeerIds |-> 0]
    /\ resendTimers = [p \in PeerIds |-> 0]
    /\ startGen = [p \in PeerIds |-> NoClosure]
    /\ bgGen = [p \in PeerIds |-> FALSE]
    /\ now = 0
    /\ net = {}
    /\ match = NoMatch
    /\ mp = InitialTransport
    /\ sent = <<>>
    /\ lastOp = Op("init", CreatorId)

---------------------------------------------------------------------------
(* UI handlers *)

\* Number.prototype.toString(36) of a number of [0, 1)
toString36(frac) == IF frac = <<>> THEN <<"0">> ELSE <<"0", ".">> \o frac

\* String.prototype.substring(start, end), 0 <= start <= end
substring(str, start, end) ==
    SubSeq(str, start + 1, IF end < Len(str) THEN end ELSE Len(str))

toUpperCase(str) ==
    [i \in DOMAIN str |->
        CASE str[i] = "r" -> "R" [] str[i] = "o" -> "O" [] str[i] = "m" -> "M"
          [] str[i] = "k" -> "K" [] OTHER -> str[i]]

\* Math.random().toString(36).substring(2, 6).toUpperCase()
newRoomId(frac) == toUpperCase(substring(toString36(frac), 2, 6))

\* the state handleCreateGame leaves in gameStateRef.current
createState(state, p, prof, frac) ==
    updateState(state,
        [roomId |-> newRoomId(frac), status |-> "lobby",
         players |-> <<NewPlayer(p, prof.name, prof.avatar, TRUE, TRUE)>>,
         questions |-> DEFAULT_QUESTIONS, settings |-> INITIAL_SETTINGS])

handleCreateGame(p, prof, frac) ==
    /\ p = CreatorId
    /\ gs[p].status = "landing"
    /\ UNCHANGED <<pendingJoin, roundTimers, resendTimers, startGen, bgGen, now>>
    /\ Commit(p, createState(gs[p], p, prof, frac), TRUE, <<>>, Op("handleCreateGame", p))

handleJoinGame(p, prof, code) ==
    /\ p \in GuestIds
    /\ gs[p].status = "landing"
    /\ code # NoRoom             \* LandingPage handleJoin: !roomCode.trim()
    /\ prof.name # ""
    /\ pendingJoin' = [pendingJoin EXCEPT ![p] = prof]
    /\ UNCHANGED <<roundTimers, resendTimers, startGen, bgGen, now>>
    /\ Commit(p, updateState(gs[p], [roomId |-> code, status |-> "lobby", players |-> <<>>]),
              TRUE, <<>>, Op("handleJoinGame", p))

firstIndexOf(players, id) ==
    CHOOSE i \in DOMAIN players :
        players[i].id = id /\ \A j \in DOMAIN players : players[j].id = id => i <= j

handleUpdatePlayer(p, prof) ==
    /\ gs[p].status # "landing"
    /\ UNCHANGED <<pendingJoin, roundTimers, resendTimers, startGen, bgGen, now>>
    /\ IF HasId(gs[p].players, p)
       THEN LET i == firstIndexOf(gs[p].players, p)
                new == updateState(gs[p],
                          [players |-> [gs[p].players EXCEPT
                                          ![i] = [@ EXCEPT !.name = prof.name,
                                                           !.avatar = prof.avatar]]])
            IN  Commit(p, new, TRUE,
                       IF isLocalHost(gs[p].players, p)
                       THEN <<broadcast(p, new)>>
                       ELSE <<Msg(p, "PLAYER_UPDATE", prof, p)>>,
                       Op("handleUpdatePlayer", p))
       ELSE Commit(p, gs[p], FALSE, <<>>, Op("handleUpdatePlayer", p))

handleUpdateSettings(p, newSettings) ==
    /\ lobbyShown(gs[p], p)
    /\ isLocalHost(gs[p].players, p)
    /\ UNCHANGED <<pendingJoin, roundTimers, resendTimers, startGen, bgGen, now>>
    /\ LET new == updateState(gs[p], [settings |-> newSettings])
       IN  Commit(p, new, FALSE, <<broadcast(p, new)>>, Op("handleUpdateSettings", p))

\* the settings one Lobby control can produce from the current ones
SettingsChoices(settings) ==
    {[settings EXCEPT !.deckType = d] : d \in Decks}
    \cup {[settings EXCEPT !.aiTopic = a] : a \in IF settings.deckType = "ai" THEN Topics ELSE {}}
    \cup {[settings EXCEPT !.roundDuration = r] : r \in Durations}
    \cup {[settings EXCEPT !.pointsToWin = w] : w \in PointsOptions}

handleToggleReady(p) ==
    /\ lobbyShown(gs[p], p)
    /\ UNCHANGED <<pendingJoin, roundTimers, resendTimers, startGen, bgGen, now>>
    /\ IF HasId(gs[p].players, p)
       THEN LET new == updateState(gs[p], [players |-> ReadyToggled(gs[p].players, p)])
            IN  Commit(p, new, TRUE,
                       IF isLocalHost(gs[p].players, p)
                       THEN <<broadcast(p, new)>>
                       ELSE <<Msg(p, "PLAYER_ACTION",
                                  [action |-> "READY_TOGGLE", data |-> ""], p)>>,
                       Op("handleToggleReady", p))
       ELSE Commit(p, gs[p], FALSE, <<>>, Op("handleToggleReady", p))

\* Lobby: canStart
canStart(state, me) ==
    /\ isLocalHost(state.players, me)
    /\ \A i \in DOMAIN state.players : state.players[i].isReady
    /\ Len(state.players) > 0

\* handleStartGame's last updateState, from the render closure it was called in
startState(state, closurePlayers, finalQuestions, t) ==
    updateState(state, [status |-> "playing", questions |-> finalQuestions,
                        currentQuestionIndex |-> 0, roundStartTime |-> t,
                        players |-> startPlayers(closurePlayers)])

\* handleStartGame up to its await (AI deck) or to its end (classic deck)
handleStartGame(p) ==
    /\ lobbyShown(gs[p], p)
    /\ canStart(gs[p], p)
    /\ ~startGen[p].pending
    /\ UNCHANGED <<pendingJoin, roundTimers, resendTimers, bgGen, now>>
    /\ IF gs[p].settings.deckType = "ai" /\ gs[p].settings.aiTopic # ""
       THEN LET loading == updateState(gs[p], [status |-> "generating"])
            IN  /\ startGen' = [startGen EXCEPT
                                  ![p] = [pending |-> TRUE, players |-> gs[p].players,
                                          questions |-> gs[p].questions]]
                /\ Commit(p, loading, FALSE, <<broadcast(p, loading)>>,
                          Op("handleStartGame", p))
       ELSE LET new == startState(gs[p], gs[p].players, gs[p].questions, now)
            IN  /\ UNCHANGED startGen
                /\ Commit(p, new, TRUE, <<broadcast(p, new)>>, Op("handleStartGame", p))

\* handleStartGame resumed after generateQuestions returned `generated`
\* (a throw leaves finalQuestions as it was, like an empty result)
handleStartGameResume(p, generated) ==
    /\ startGen[p].pending
    /\ UNCHANGED <<pendingJoin, roundTimers, resendTimers, bgGen, now>>
    /\ startGen' = [startGen EXCEPT ![p] = NoClosure]
    /\ LET finalQuestions == IF Len(generated) > 0 THEN generated
                             ELSE startGen[p].questions
           new == startState(gs[p], startGen[p].players, finalQuestions, now)
       IN  Commit(p, new, TRUE, <<broadcast(p, new)>>, Op("handleStartGameResume", p))

\* GameRound calls onAnswer: a submit while playing, or the typed text
\* captured when the result is shown
handleAnswer(p, correct, guess) ==
    /\ guess # ""
    /\ \/ gs[p].status = "playing"
       \/ /\ gs[p].status = "round_result"
          /\ ~correct
          /\ HasId(gs[p].players, p)
          /\ ~PlayerOf(gs[p].players, p).hasAnsweredRound
          /\ PlayerOf(gs[p].players, p).finalAnswer = Undefined
    /\ UNCHANGED <<pendingJoin, roundTimers, resendTimers, startGen, bgGen, now>>
    /\ LET action == IF correct THEN "ANSWER_CORRECT" ELSE "ANSWER_WRONG"
       IN  IF isLocalHost(gs[p].players, p)
           THEN Commit(p, handlePlayerAction(gs[p], p, action, guess, now),
                       stateChanged(gs[p], p, action),
                       handlePlayerActionSends(p, gs[p], p, action, guess, now),
                       [Op("handleAnswer", p) EXCEPT !.action = action])
           ELSE Commit(p, gs[p], FALSE,
                       <<Msg(p, "PLAYER_ACTION", [action |-> action, data |-> guess], p)>>,
                       [Op("handleAnswer", p) EXCEPT !.action = action])

handleRestart(p) ==
    /\ gs[p].status = "game_over"
    /\ isLocalHost(gs[p].players, p)
    /\ UNCHANGED <<pendingJoin, roundTimers, resendTimers, startGen, bgGen, now>>
    /\ LET new == updateState(gs[p], [status |-> "lobby",
                                      players |-> restartPlayers(gs[p].players)])
       IN  Commit(p, new, TRUE, <<broadcast(p, new)>>, Op("handleRestart", p))

handleExitGame(p) ==
    /\ gs[p].status \in {"playing", "round_result"}
    /\ isLocalHost(gs[p].players, p)
    /\ UNCHANGED <<pendingJoin, roundTimers, resendTimers, startGen, bgGen, now>>
    /\ LET new == updateState(gs[p], [status |-> "game_over"])
       IN  Commit(p, new, FALSE, <<broadcast(p, new)>>, Op("handleExitGame", p))

---------------------------------------------------------------------------
(* Timers and asynchronous callbacks *)

\* interval ticks of one run of the join effect that are due before its
\* overall timeout (the last one is due together with it)
JoinTicks == (maxAttempts * JoinTimeoutPerAttempt) \div JoinInterval

\* what tryJoin hands to multiplayer.send
tryJoinSends(p) ==
    IF pendingJoin[p] # Null THEN <<Msg(p, "JOIN_REQUEST", pendingJoin[p], p)>> ELSE <<>>

\* tryJoin in the closure of the current run: attemptCount++, the send, then
\* the interval is cleared if the tab is listed or attemptCount reached maxAttempts
tryJoinBody(p, jl) ==
    [jl EXCEPT !.attempts = @ + 1,
               !.active = @ /\ ~HasId(gs[p].players, p) /\ jl.attempts + 1 < maxAttempts,
               !.total = IF pendingJoin[p] # Null /\ @ <= maxAttempts THEN @ + 1 ELSE @]

\* the setTimeout(tryJoin, 1000) of the current run fires
tryJoinFirst(p) ==
    /\ joinLoop[p].first
    /\ UNCHANGED <<gs, pendingJoin, loop, roundTimers, resendTimers, startGen, bgGen, now>>
    /\ joinLoop' = [joinLoop EXCEPT ![p] = [tryJoinBody(p, @) EXCEPT !.first = FALSE]]
    /\ sent' = tryJoinSends(p)
    /\ lastOp' = Op("tryJoinFirst", p)

\* tryJoin, run by the retry interval
tryJoin(p) ==
    /\ joinLoop[p].active
    /\ ~joinLoop[p].first
    /\ joinLoop[p].attempts <= JoinTicks
    /\ UNCHANGED <<gs, pendingJoin, loop, roundTimers, resendTimers, startGen, bgGen, now>>
    /\ joinLoop' = [joinLoop EXCEPT ![p] = tryJoinBody(p, @)]
    /\ sent' = tryJoinSends(p)
    /\ lastOp' = Op("tryJoin", p)

\* the setTimeout(tryJoin, 1000) of an earlier run fires: its interval is
\* gone, its send is not
tryJoinStale(p) ==
    /\ joinLoop[p].stale > 0
    /\ UNCHANGED <<gs, pendingJoin, loop, roundTimers, resendTimers, startGen, bgGen, now>>
    /\ joinLoop' = [joinLoop EXCEPT
                      ![p] = [@ EXCEPT !.stale = @ - 1,
                                       !.total = IF pendingJoin[p] # Null /\ @ <= maxAttempts
                                                 THEN @ + 1 ELSE @]]
    /\ sent' = tryJoinSends(p)
    /\ lastOp' = Op("tryJoinStale", p)

\* the overall timeout of the current run clears the interval
joinTimeout(p) ==
    /\ joinLoop[p].active
    /\ joinLoop[p].attempts >= JoinTicks
    /\ UNCHANGED <<gs, pendingJoin, loop, roundTimers, resendTimers, startGen, bgGen, now>>
    /\ joinLoop' = [joinLoop EXCEPT ![p] = [@ EXCEPT !.active = FALSE]]
    /\ sent' = <<>>
    /\ lastOp' = Op("joinTimeout", p)

\* handleNetworkMessage(msg), called by the mesh adapter of a connected tab
handleNetworkMessage(p, msg) ==
    /\ gs[p].roomId # NoRoom /\ gs[p].status # "landing"
    /\ msg.from # p
    /\ UNCHANGED <<pendingJoin, roundTimers, startGen, bgGen, now>>
    /\ resendTimers' =
          [resendTimers EXCEPT
             ![p] = IF ~dropped(p, msg) /\ msg.type = "JOIN_REQUEST"
                       /\ joinAccepted(gs[p], p, msg) /\ @ < MaxTimers
                    THEN @ + 1 ELSE @]
    /\ Commit(p, onMessage(gs[p], p, msg, now), onMessageTouchesPlayers(gs[p], p, msg),
              onMessageSends(gs[p], p, msg, now), MsgOp(p, msg))

\* the second STATE_UPDATE, one second after an accepted join
resendStateUpdate(p) ==
    /\ resendTimers[p] > 0
    /\ resendTimers' = [resendTimers EXCEPT ![p] = @ - 1]
    /\ UNCHANGED <<gs, pendingJoin, joinLoop, loop, roundTimers, startGen, bgGen, now>>
    /\ sent' = <<StateUpdateFrom(p, gs[p])>>
    /\ lastOp' = Op("resendStateUpdate", p)

\* broadcastState, every two seconds while the tab is in a room
broadcastState(p) ==
    /\ gs[p].roomId # NoRoom /\ gs[p].status # "landing"
    /\ isLocalHost(gs[p].players, p) /\ Len(gs[p].players) > 0
    /\ UNCHANGED <<gs, pendingJoin, joinLoop, loop, roundTimers, resendTimers, startGen,
                   bgGen, now>>
    /\ sent' = <<StateUpdateFrom(p, gs[p])>>
    /\ lastOp' = Op("broadcastState", p)

\* handleRoundEnd's state
roundEndState(state) == updateState(state, [status |-> "round_result"])

\* one run of the game-loop interval callback
gameLoopTick(p) ==
    /\ loop[p]
    /\ UNCHANGED <<pendingJoin, resendTimers, startGen, now>>
    /\ IF gs[p].status = "playing" /\ (allAnswered(gs[p]) \/ timeUp(gs[p], now))
       THEN /\ roundTimers[p] < MaxTimers
            /\ roundTimers' = [roundTimers EXCEPT ![p] = @ + 1]
            /\ bgGen' = [bgGen EXCEPT ![p] = @ \/ needsMoreQuestions(gs[p])]
            /\ Commit(p, roundEndState(gs[p]), FALSE,
                      <<broadcast(p, roundEndState(gs[p]))>>, Op("gameLoopTick", p))
       ELSE /\ UNCHANGED <<roundTimers, bgGen>>
            /\ Commit(p, gs[p], FALSE, <<>>, Op("gameLoopTick", p))

\* the timeout handleRoundEnd set fires
processNextRoundTimer(p, cap) ==
    /\ roundTimers[p] > 0
    /\ isGameOver(gs[p]) \/ gs[p].currentQuestionIndex < cap
    /\ roundTimers' = [roundTimers EXCEPT ![p] = @ - 1]
    /\ UNCHANGED <<pendingJoin, resendTimers, startGen, bgGen, now>>
    /\ LET new == processNextRound(gs[p], now)
       IN  Commit(p, new, ~isGameOver(gs[p]), <<broadcast(p, new)>>,
                  Op("processNextRound", p))

\* checkForMoreQuestions resumed after generateQuestions returned newQs
\* (a throw is like an empty result)
checkForMoreQuestionsResume(p, newQs) ==
    /\ bgGen[p]
    /\ bgGen' = [bgGen EXCEPT ![p] = FALSE]
    /\ UNCHANGED <<pendingJoin, roundTimers, resendTimers, startGen, now>>
    /\ IF Len(newQs) > 0
       THEN LET new == updateState(gs[p], [questions |-> gs[p].questions \o newQs])
            IN  Commit(p, new, FALSE, <<broadcast(p, new)>>,
                       Op("checkForMoreQuestions", p))
       ELSE Commit(p, gs[p], FALSE, <<>>, Op("checkForMoreQuestions", p))

\* time passes
advanceClock(limit) ==
    /\ now + ClockStep <= limit
    /\ now' = now + ClockStep
    /\ UNCHANGED <<gs, pendingJoin, joinLoop, loop, roundTimers, resendTimers, startGen,
                   bgGen>>
    /\ sent' = <<>>
    /\ lastOp' = Op("clock", CreatorId)

---------------------------------------------------------------------------
(* The mesh: best effort, unordered; a message may be lost, and stays       *)
(* deliverable after a delivery (duplication)                               *)

lossy == net' \in {n \in SUBSET (net \cup Range(sent')) : Cardinality(n) <= MaxNet}

\* what a tab can do by itself
tabStep(p) ==
    \/ \E prof \in Profiles, frac \in RandomFractions : handleCreateGame(p, prof, frac)
    \/ \E code \in JoinCodes : handleJoinGame(p, JoinProfile, code)
    \/ \E prof \in Profiles : handleUpdatePlayer(p, prof)
    \/ \E s \in SettingsChoices(gs[p].settings) : handleUpdateSettings(p, s)
    \/ handleToggleReady(p)
    \/ handleStartGame(p)
    \/ \E g \in GeneratedBatches : handleStartGameResume(p, g)
    \/ \E c \in BOOLEAN, t \in Texts : handleAnswer(p, c, t)
    \/ handleRestart(p)
    \/ handleExitGame(p)
    \/ tryJoinFirst(p)
    \/ tryJoin(p)
    \/ tryJoinStale(p)
    \/ joinTimeout(p)
    \/ resendStateUpdate(p)
    \/ broadcastState(p)
    \/ gameLoopTick(p)
    \/ processNextRoundTimer(p, MaxIndex)
    \/ \E q \in MoreBatches : checkForMoreQuestionsResume(p, q)

meshStep ==
    \/ \E p \in PeerIds : tabStep(p) /\ lossy
    \/ \E p \in PeerIds : \E msg \in net : handleNetworkMessage(p, msg) /\ lossy
    \/ advanceClock(MaxNow) /\ lossy

Next == meshStep /\ UNCHANGED <<match, mp>>

Spec == Init /\ [][Next]_vars

---------------------------------------------------------------------------
(* The host tab alone: whatever its guests send may arrive at any time, in  *)
(* any order and any number of times; what it sends is lost                 *)

GuestMessages ==
    {Msg(g, "JOIN_REQUEST", JoinProfile, g) : g \in GuestIds}
    \cup {Msg(g, "PLAYER_ACTION", [action |-> a, data |-> d], g) :
             g \in GuestIds, a \in Actions, d \in Texts}
    \cup {Msg(g, "PLAYER_UPDATE", prof, g) : g \in GuestIds, prof \in Profiles}

\* a STATE_UPDATE of another tab that holds the room's code as its creator
foreignLobby ==
    updateState(createState(InitialGameState, Bystander, JoinProfile, RoomDraw),
                [settings |-> [INITIAL_SETTINGS EXCEPT !.pointsToWin = MinPointsToWin]])

ForeignUpdates == {Msg(Bystander, "STATE_UPDATE", foreignLobby, Bystander)}

hostStep ==
    \/ handleCreateGame(CreatorId, JoinProfile, RoomDraw)
    \/ handleUpdatePlayer(CreatorId, JoinProfile)
    \/ \E s \in SettingsChoices(gs[CreatorId].settings) : handleUpdateSettings(CreatorId, s)
    \/ handleToggleReady(CreatorId)
    \/ handleStartGame(CreatorId)
    \/ \E g \in GeneratedBatches : handleStartGameResume(CreatorId, g)
    \/ \E c \in BOOLEAN, t \in Texts : handleAnswer(CreatorId, c, t)
    \/ handleRestart(CreatorId)
    \/ handleExitGame(CreatorId)
    \/ gameLoopTick(CreatorId)
    \/ processNextRoundTimer(CreatorId, MaxIndex)
    \/ \E q \in MoreBatches : checkForMoreQuestionsResume(CreatorId, q)
    \/ \E msg \in GuestMessages \cup ForeignUpdates : handleNetworkMessage(CreatorId, msg)
    \/ advanceClock(MaxNow)

NextHost == hostStep /\ UNCHANGED <<net, match, mp>>

SpecHost == Init /\ [][NextHost]_vars

---------------------------------------------------------------------------
(* The round machine: a game played from a full lobby to its end.  The     *)
(* lobby is the one the host reaches by handleCreateGame, every guest's    *)
(* JOIN_REQUEST and READY_TOGGLE, and its settings controls.               *)

JoinMsg(g) == Msg(g, "JOIN_REQUEST", JoinProfile, g)

RECURSIVE lobbyWith(_, _)
lobbyWith(state, guests) ==
    IF guests = {} THEN state
    ELSE LET g == CHOOSE x \in guests : TRUE
             joined == onMessage(state, CreatorId, JoinMsg(g), 0)
         IN  lobbyWith(handlePlayerAction(joined, g, "READY_TOGGLE", "", 0), guests \ {g})

GameSettings ==
    {[INITIAL_SETTINGS EXCEPT !.pointsToWin = w, !.deckType = d,
                              !.aiTopic = IF d = "ai" THEN "space" ELSE ""] :
        w \in {MinPointsToWin, DefaultPointsToWin}, d \in {"classic", "ai"}}

GameLobby(settings) ==
    updateState(lobbyWith(createState(InitialGameState, CreatorId, JoinProfile, RoomDraw), GuestIds),
                [settings |-> settings])

InitGame ==
    /\ \E s \in GameSettings :
          gs = [p \in PeerIds |-> IF p = CreatorId THEN GameLobby(s) ELSE InitialGameState]
    /\ pendingJoin = [p \in PeerIds |-> Null]
    /\ joinLoop = [p \in PeerIds |-> NoJoinLoop]
    /\ loop = [p \in PeerIds |-> FALSE]
    /\ roundTimers = [p \in PeerIds |-> 0]
    /\ resendTimers = [p \in PeerIds |-> 0]
    /\ startGen = [p \in PeerIds |-> NoClosure]
    /\ bgGen = [p \in PeerIds |-> FALSE]
    /\ now = 0
    /\ net = {}
    /\ match = NoMatch
    /\ mp = InitialTransport
    /\ sent = <<>>
    /\ lastOp = Op("init", CreatorId)

CorrectAnswers ==
    {Msg(g, "PLAYER_ACTION", [action |-> "ANSWER_CORRECT", data |-> d], g) :
        g \in GuestIds, d \in Texts}

gameStep ==
    \/ handleStartGame(CreatorId)
    \/ \E g \in GameBatches : handleStartGameResume(CreatorId, g)
    \/ \E t \in Texts : handleAnswer(CreatorId, TRUE, t)
    \/ \E msg \in CorrectAnswers : handleNetworkMessage(CreatorId, msg)
    \/ gameLoopTick(CreatorId)
    \/ processNextRoundTimer(CreatorId, MaxGameIndex)
    \/ \E q \in MoreBatches : checkForMoreQuestionsResume(CreatorId, q)
    \/ advanceClock(MaxGameNow)

NextGame == gameStep /\ UNCHANGED <<net, match, mp>>

SpecGame == InitGame /\ [][NextGame]_vars

---------------------------------------------------------------------------
(* A guest tab alone.  It receives what the host of its room can have sent: *)
(* STATE_UPDATEs carrying a state of the host, with the host's senderId    *)
(* (broadcastState, the answer to a join) or without one (broadcast), and  *)
(* the messages another guest sends to the room.  What it sends is lost.   *)

lobbyAlone == createState(InitialGameState, CreatorId, JoinProfile, RoomDraw)

lobbyJoined(g) == onMessage(lobbyAlone, CreatorId, JoinMsg(g), 0)

playingAlone == startState(lobbyAlone, lobbyAlone.players, lobbyAlone.questions, 0)

playingJoined(g) == onMessage(playingAlone, CreatorId, JoinMsg(g), 0)

hostScored(g) == handlePlayerAction(playingJoined(g), CreatorId, "ANSWER_CORRECT", "mars", 0)

roundOver(g) == roundEndState(hostScored(g))

nextRound(g) == processNextRound(roundOver(g), 0)

exited(g) == updateState(roundOver(g), [status |-> "game_over"])

restarted(g) ==
    updateState(exited(g), [status |-> "lobby", players |-> restartPlayers(exited(g).players)])

HostSnapshots(g) ==
    {lobbyAlone, lobbyJoined(g), playingAlone, playingJoined(g), hostScored(g),
     roundOver(g), nextRound(g), exited(g), restarted(g)}

\* the host lists a guest only after a JOIN_REQUEST of that guest
deliverable(g, state) ==
    HasId(state.players, g) => joinLoop[g].total > 0

GuestInbox(g) ==
    {Msg(CreatorId, "STATE_UPDATE", state, sid) :
        state \in {x \in HostSnapshots(g) : deliverable(g, x)},
        sid \in {CreatorId, NoSender}}
    \cup {JoinMsg(Bystander)}
    \cup {Msg(Bystander, "PLAYER_ACTION", [action |-> a, data |-> d], Bystander) :
             a \in Actions, d \in Texts}
    \cup {Msg(Bystander, "PLAYER_UPDATE", prof, Bystander) : prof \in Profiles}

guestStep(g) ==
    \/ \E code \in JoinCodes : handleJoinGame(g, JoinProfile, code)
    \/ tryJoinFirst(g)
    \/ tryJoin(g)
    \/ tryJoinStale(g)
    \/ joinTimeout(g)
    \/ \E prof \in Profiles : handleUpdatePlayer(g, prof)
    \/ handleToggleReady(g)
    \/ \E c \in BOOLEAN, t \in Texts : handleAnswer(g, c, t)
    \/ \E msg \in GuestInbox(g) : handleNetworkMessage(g, msg)

NextGuest == (\E g \in GuestIds : guestStep(g)) /\ UNCHANGED <<net, match, mp>>

SpecGuest == Init /\ [][NextGuest]_vars

---------------------------------------------------------------------------
(* The inbox of either tab, with the messages that lack a field            *)
(* handleNetworkMessage requires                                            *)

Malformed(from, snapshot) ==
    {Msg(from, NoType, JoinProfile, from),
     Msg(from, "JOIN_REQUEST", JoinProfile, NoSender),
     Msg(from, "JOIN_REQUEST", [JoinProfile EXCEPT !.name = ""], from),
     Msg(from, "JOIN_REQUEST", [JoinProfile EXCEPT !.avatar = ""], from),
     Msg(from, "PLAYER_ACTION", [action |-> "", data |-> "mars"], from),
     Msg(from, "STATE_UPDATE", NonObject("string"), from),
     Msg(from, "STATE_UPDATE", snapshot, NoSender)}

HostMalformed == UNION {Malformed(g, foreignLobby) : g \in GuestIds}

GuestMalformed(g) == Malformed(CreatorId, lobbyJoined(g)) \cup Malformed(Bystander, foreignLobby)

inboxHostStep ==
    /\ lastOp.peer = CreatorId
    /\ \/ handleCreateGame(CreatorId, JoinProfile, RoomDraw)
       \/ handleStartGame(CreatorId)
       \/ \E t \in Texts : handleAnswer(CreatorId, TRUE, t)
       \/ gameLoopTick(CreatorId)
       \/ resendStateUpdate(CreatorId)
       \/ \E msg \in GuestMessages \cup ForeignUpdates \cup HostMalformed :
             handleNetworkMessage(CreatorId, msg)

inboxGuestStep ==
    /\ lastOp.op = "init" \/ lastOp.peer \in GuestIds
    /\ \E g \in GuestIds :
          \/ handleJoinGame(g, JoinProfile, RoomCode)
          \/ tryJoinFirst(g)
          \/ handleToggleReady(g)
          \/ \E msg \in GuestInbox(g) \cup GuestMalformed(g) : handleNetworkMessage(g, msg)

NextInbox == (inboxHostStep \/ inboxGuestStep) /\ UNCHANGED <<net, match, mp>>

SpecInbox == Init /\ [][NextInbox]_vars

---------------------------------------------------------------------------
(* Either tab alone: the creator's tab as in SpecHost, with every draw of  *)
(* Math.random, or a guest's tab as in SpecGuest.  The first step decides. *)

tabsHostStep ==
    /\ lastOp.peer = CreatorId
    /\ \/ hostStep
       \/ \E frac \in RandomFractions : handleCreateGame(CreatorId, JoinProfile, frac)

tabsGuestStep ==
    /\ lastOp.op = "init" \/ lastOp.peer \in GuestIds
    /\ \E g \in GuestIds : guestStep(g)

NextTabs == (tabsHostStep \/ tabsGuestStep) /\ UNCHANGED <<net, match, mp>>

SpecTabs == Init /\ [][NextTabs]_vars

---------------------------------------------------------------------------
(* Late joiners: the host opens a room alone and plays; guests join at any *)
(* time, a listed guest may answer.                                         *)

MaxLateIndex == 1       \* late joiners: rounds are explored up to this question index
MaxLateNow == 30        \* late joiners: the clock stops here

LateSettings ==
    {INITIAL_SETTINGS,
     [INITIAL_SETTINGS EXCEPT !.deckType = "ai", !.aiTopic = "space"]}

InitLate ==
    /\ \E s \in LateSettings :
          gs = [p \in PeerIds |-> IF p = CreatorId
                                  THEN updateState(lobbyAlone, [settings |-> s])
                                  ELSE InitialGameState]
    /\ pendingJoin = [p \in PeerIds |-> Null]
    /\ joinLoop = [p \in PeerIds |-> NoJoinLoop]
    /\ loop = [p \in PeerIds |-> FALSE]
    /\ roundTimers = [p \in PeerIds |-> 0]
    /\ resendTimers = [p \in PeerIds |-> 0]
    /\ startGen = [p \in PeerIds |-> NoClosure]
    /\ bgGen = [p \in PeerIds |-> FALSE]
    /\ now = 0
    /\ net = {}
    /\ match = NoMatch
    /\ mp = InitialTransport
    /\ sent = <<>>
    /\ lastOp = Op("init", CreatorId)

lateStep ==
    \/ handleStartGame(CreatorId)
    \/ \E g \in GeneratedBatches : handleStartGameResume(CreatorId, g)
    \/ \E t \in Texts : handleAnswer(CreatorId, TRUE, t)
    \/ \E g \in GuestIds : handleNetworkMessage(CreatorId, JoinMsg(g))
    \/ \E msg \in CorrectAnswers : handleNetworkMessage(CreatorId, msg)
    \/ gameLoopTick(CreatorId)
    \/ processNextRoundTimer(CreatorId, MaxLateIndex)
    \/ \E q \in MoreBatches : checkForMoreQuestionsResume(CreatorId, q)
    \/ resendStateUpdate(CreatorId)
    \/ handleRestart(CreatorId)
    \/ handleExitGame(CreatorId)
    \/ handleToggleReady(CreatorId)
    \/ advanceClock(MaxLateNow)

NextLate == lateStep /\ UNCHANGED <<net, match, mp>>

SpecLate == InitLate /\ [][NextLate]_vars

---------------------------------------------------------------------------
(* GameRound: fuzzy matching.  A string is the sequence of its characters. *)

MaxTyped == 3                 \* typed inputs: every string up to this length
ShortAnswerLength == 3        \* maxLength <= 3
LongAnswerLength == 10        \* maxLength >= 10
ShortAnswerEdits == 1         \* dist <= 1
StandardThreshold == 80       \* similarity >= 0.80, in hundredths
LongThreshold == 75           \* similarity >= 0.75, in hundredths
MinSubstringLength == 2       \* cleanInput.length >= 2
MinPrefixLength == 3          \* cleanInput.length >= 3

AlnumChars == {"a", "b", "c", "e", "i", "k", "m", "n", "o", "t", "v"}   \* of [a-z0-9]
Separators == {" ", "-", "_"}                                           \* of [\s\-_]

toLowerCase(str) == [i \in DOMAIN str |-> IF str[i] = "T" THEN "t" ELSE str[i]]

RECURSIVE trimStart(_)
trimStart(str) ==
    IF str # <<>> /\ Head(str) = " " THEN trimStart(Tail(str)) ELSE str

RECURSIVE trimEnd(_)
trimEnd(str) ==
    IF str # <<>> /\ str[Len(str)] = " " THEN trimEnd(SubSeq(str, 1, Len(str) - 1)) ELSE str

trim(str) == trimEnd(trimStart(str))

isAlnum(c) == c \in AlnumChars

\* str.trim().toLowerCase().replace(/[^a-z0-9]/g, '')
clean(str) == SelectSeq(toLowerCase(trim(str)), isAlnum)

startsWith(str, prefix) ==
    Len(prefix) <= Len(str) /\ SubSeq(str, 1, Len(prefix)) = prefix

includes(str, part) ==
    \E i \in 0..(Len(str) - Len(part)) : SubSeq(str, i + 1, i + Len(part)) = part

Min3(x, y, z) == IF x <= y /\ x <= z THEN x ELSE IF y <= z THEN y ELSE z

RECURSIVE matrixRow(_, _, _)
\* matrix[i] of levenshtein, as a function on 0..a.length
matrixRow(a, b, i) ==
    IF i = 0 THEN [j \in 0..Len(a) |-> j]
    ELSE LET prev == matrixRow(a, b, i - 1)
             cell[j \in 0..Len(a)] ==
                 IF j = 0 THEN i
                 ELSE IF b[i] = a[j] THEN prev[j - 1]
                 ELSE Min3(prev[j - 1] + 1, cell[j - 1] + 1, prev[j] + 1)
         IN  cell

levenshtein(a, b) == matrixRow(a, b, Len(b))[Len(a)]

RECURSIVE split(_, _)
\* str.split(/[\s\-_]+/).filter(w => w.length > 0); word is the one being read
split(str, word) ==
    LET done == IF word = <<>> THEN <<>> ELSE <<word>>
    IN  IF str = <<>> THEN done
        ELSE IF Head(str) \in Separators THEN done \o split(Tail(str), <<>>)
        ELSE split(Tail(str), Append(word, Head(str)))

RECURSIVE matchWordStarts(_, _, _)
\* inputIdx after the loop over targetWords
matchWordStarts(words, cleanInput, inputIdx) ==
    IF words = <<>> \/ inputIdx >= Len(cleanInput) THEN inputIdx
    ELSE matchWordStarts(Tail(words), cleanInput,
                         IF Head(words)[1] = cleanInput[inputIdx + 1]
                         THEN inputIdx + 1 ELSE inputIdx)

isAbbreviation(input, target) ==
    LET cleanInput == clean(input)
        cleanTarget == toLowerCase(trim(target))
        targetWords == split(cleanTarget, <<>>)
        initials == [i \in DOMAIN targetWords |-> targetWords[i][1]]
        inputIdx == matchWordStarts(targetWords, cleanInput, 0)
    IN  IF Len(cleanInput) = 0 \/ Len(cleanTarget) = 0 THEN FALSE
        ELSE \/ /\ Len(targetWords) > 1
                /\ Len(cleanInput) <= Len(targetWords)
                /\ \/ initials = cleanInput
                   \/ inputIdx = Len(cleanInput) /\ inputIdx <= Len(targetWords)
             \/ includes(cleanTarget, cleanInput) /\ Len(cleanInput) >= MinSubstringLength
             \/ startsWith(cleanTarget, cleanInput) /\ Len(cleanInput) >= MinPrefixLength

maxLength(cleanInput, cleanTarget) ==
    IF Len(cleanInput) >= Len(cleanTarget) THEN Len(cleanInput) ELSE Len(cleanTarget)

\* variant: half of the characters may differ
thresholdHalf(maxLen) == StandardThreshold - 30

\* the similarity an answer of this length needs, in hundredths
threshold(maxLen) == IF maxLen >= LongAnswerLength THEN LongThreshold ELSE StandardThreshold

\* the comparisons of checkSingleSimilarity after its abbreviation check;
\* (maxLength - dist) / maxLength >= 0.80 is exact in integers, the quotient
\* being correctly rounded
withinThreshold(dist, maxLen) ==
    IF maxLen <= ShortAnswerLength THEN dist <= ShortAnswerEdits
    ELSE 100 * (maxLen - dist) >= threshold(maxLen) * maxLen

checkSingleSimilarity(input, target) ==
    LET cleanInput == clean(input)
        cleanTarget == clean(target)
    IN  IF Len(cleanTarget) = 0 THEN FALSE
        ELSE IF cleanInput = cleanTarget THEN TRUE
        ELSE IF isAbbreviation(cleanInput, cleanTarget) THEN TRUE
        ELSE withinThreshold(levenshtein(cleanInput, cleanTarget),
                             maxLength(cleanInput, cleanTarget))

\* question.acceptedAnswers undefined is the empty list
checkAnswer(input, question) ==
    IF checkSingleSimilarity(input, question.answer) THEN TRUE
    ELSE IF Len(question.acceptedAnswers) > 0
         THEN \E i \in DOMAIN question.acceptedAnswers :
                 checkSingleSimilarity(input, question.acceptedAnswers[i])
         ELSE isAbbreviation(input, question.answer)

(* Inputs of the matcher *)

TypedChars == {"t", "i", "a", " "}

RECURSIVE StringsUpTo(_)
StringsUpTo(n) ==
    IF n = 0 THEN {<<>>}
    ELSE LET shorter == StringsUpTo(n - 1)
         IN  shorter \cup {Append(str, c) : str \in shorter, c \in TypedChars}

Titanic == <<"T", "i", "t", "a", "n", "i", "c">>
titanik == <<"t", "i", "t", "a", "n", "i", "k">>
boatMovie == <<"b", "o", "a", "t", " ", "m", "o", "v", "i", "e">>
tita == <<"t", "i", "t", "a">>
TiTa == <<"T", "i", " ", "T", "a">>
Ampersand == <<"&">>           \* an answer without a character of [a-z0-9]

titanicMovie == toLowerCase(Titanic) \o <<" ">> \o <<"m", "o", "v", "i", "e">>

Answers == {Titanic, tita, TiTa, Ampersand, <<"a", "t">>, titanicMovie}
Aliases == {<<>>, <<tita>>}
Questions == {[answer |-> a, acceptedAnswers |-> l] : a \in Answers, l \in Aliases}
TypedInputs == StringsUpTo(MaxTyped) \cup Answers \cup {titanik, boatMovie}

InitMatch ==
    /\ gs = [p \in PeerIds |-> InitialGameState]
    /\ pendingJoin = [p \in PeerIds |-> Null]
    /\ joinLoop = [p \in PeerIds |-> NoJoinLoop]
    /\ loop = [p \in PeerIds |-> FALSE]
    /\ roundTimers = [p \in PeerIds |-> 0]
    /\ resendTimers = [p \in PeerIds |-> 0]
    /\ startGen = [p \in PeerIds |-> NoClosure]
    /\ bgGen = [p \in PeerIds |-> FALSE]
    /\ now = 0
    /\ net = {}
    /\ sent = <<>>
    /\ lastOp = Op("init", CreatorId)
    /\ mp = InitialTransport
    /\ \E input \in TypedInputs, question \in Questions :
          match = [called |-> FALSE, input |-> input, question |-> question]

\* checkAnswer(input, question) is called
callCheckAnswer ==
    /\ ~match.called
    /\ match' = [called |-> TRUE, input |-> match.input, question |-> match.question,
                 result |-> checkAnswer(match.input, match.question)]
    /\ UNCHANGED <<gs, pendingJoin, joinLoop, loop, roundTimers, resendTimers, startGen,
                   bgGen, now, net, sent, lastOp, mp>>

NextMatch == callCheckAnswer

SpecMatch == InitMatch /\ [][NextMatch]_vars

---------------------------------------------------------------------------
(* The adapter alone: its caller, the transport's callbacks and its timeouts *)

App == <<gs, pendingJoin, joinLoop, loop, roundTimers, resendTimers, startGen, bgGen,
         now, net, sent, lastOp, match>>

Ran(m, op, roomId) == mp' = [m EXCEPT !.call = [op |-> op, roomId |-> roomId]]

\* the caller's multiplayer.connect(roomId, ...)
callConnect ==
    \E roomId \in Rooms, joins \in BOOLEAN :
       LET again == mp.room # NullRoom /\ mp.currentRoomId = roomId
           fresh == IF again THEN mp ELSE [mp EXCEPT !.joinCalls = 0, !.allFailed = TRUE]
           m == connect(fresh, roomId, joins)
       IN  /\ Len(m.retryTimers) <= MaxRetryTimers
           /\ m.markTimers <= MaxTimers
           /\ Ran(m, "connect", roomId)

callSend == \E throws \in BOOLEAN : Ran(send(mp, throws), "send", NullRoom)

callDisconnect == Ran(disconnect(mp), "disconnect", NullRoom)

\* a reconnect timeout expires: disconnect(); connect(roomId, onMessage)
retryTimeout ==
    \E i \in DOMAIN mp.retryTimers, joins \in BOOLEAN :
       LET rest == [j \in 1..(Len(mp.retryTimers) - 1) |->
                       IF j < i THEN mp.retryTimers[j] ELSE mp.retryTimers[j + 1]]
           m == connect(disconnect([mp EXCEPT !.retryTimers = rest]),
                        mp.retryTimers[i].roomId, joins)
       IN  /\ mp.joinCalls < MaxJoinCalls
           /\ m.markTimers <= MaxTimers
           /\ Ran(m, "retry", mp.retryTimers[i].roomId)

markTimeout ==
    /\ mp.markTimers > 0
    /\ Ran(markConnected([mp EXCEPT !.markTimers = @ - 1]), "mark", NullRoom)

pingTimeout ==
    /\ mp.pingTimers > 0
    /\ \E throws \in BOOLEAN :
          Ran(send([mp EXCEPT !.pingTimers = @ - 1], throws), "ping", NullRoom)

peerJoins ==
    /\ mp.room # NullRoom
    /\ mp.pingTimers < MaxTimers
    /\ \E peerId \in RemotePeers : Ran(onPeerJoin(mp, peerId), "onPeerJoin", NullRoom)

peerLeaves ==
    /\ mp.room # NullRoom
    /\ \E peerId \in mp.peerIds : Ran(onPeerLeave(mp, peerId), "onPeerLeave", NullRoom)

dataArrives ==
    /\ mp.room # NullRoom
    /\ \E type \in DataTypes, peerId \in RemotePeers, throws \in BOOLEAN :
          Ran(get(mp, type, peerId, throws), "get", NullRoom)

peerCheckTick ==
    /\ mp.peerCheckInterval
    /\ \E peers \in SUBSET RemotePeers : Ran(peerCheck(mp, peers), "peerCheck", NullRoom)

NextTransport ==
    /\ \/ callConnect
       \/ callSend
       \/ callDisconnect
       \/ retryTimeout
       \/ markTimeout
       \/ pingTimeout
       \/ peerJoins
       \/ peerLeaves
       \/ dataArrives
       \/ peerCheckTick
    /\ UNCHANGED App

SpecTransport == Init /\ [][NextTransport]_vars

---------------------------------------------------------------------------
(* A classic game to its end: the deck is never replenished, the game-loop *)
(* interval and the post-round timeout keep firing.  Only the time that    *)
(* passes while a round is open matters, so the clock moves only then.     *)

MaxFiniteNow == 120     \* a finite game: the clock stops here

ClassicSettings ==
    {[INITIAL_SETTINGS EXCEPT !.pointsToWin = w] : w \in {MinPointsToWin, DefaultPointsToWin}}

InitFinite ==
    /\ \E s \in ClassicSettings :
          gs = [p \in PeerIds |-> IF p = CreatorId THEN GameLobby(s) ELSE InitialGameState]
    /\ pendingJoin = [p \in PeerIds |-> Null]
    /\ joinLoop = [p \in PeerIds |-> NoJoinLoop]
    /\ loop = [p \in PeerIds |-> FALSE]
    /\ roundTimers = [p \in PeerIds |-> 0]
    /\ resendTimers = [p \in PeerIds |-> 0]
    /\ startGen = [p \in PeerIds |-> NoClosure]
    /\ bgGen = [p \in PeerIds |-> FALSE]
    /\ now = 0
    /\ net = {}
    /\ match = NoMatch
    /\ mp = InitialTransport
    /\ sent = <<>>
    /\ lastOp = Op("init", CreatorId)

\* time passes in an open round
roundClock ==
    /\ gs[CreatorId].status = "playing"
    /\ ~timeUp(gs[CreatorId], now)
    /\ advanceClock(MaxFiniteNow)

finiteTick == gameLoopTick(CreatorId) /\ UNCHANGED <<net, match, mp>>

finiteTimeout ==
    processNextRoundTimer(CreatorId, NumDefaultQuestions) /\ UNCHANGED <<net, match, mp>>

finiteClock == roundClock /\ UNCHANGED <<net, match, mp>>

finiteStep ==
    \/ handleStartGame(CreatorId)
    \/ \E t \in Texts : handleAnswer(CreatorId, TRUE, t)
    \/ \E msg \in CorrectAnswers : handleNetworkMessage(CreatorId, msg)
    \/ handleExitGame(CreatorId)

NextFinite ==
    \/ finiteStep /\ UNCHANGED <<net, match, mp>>
    \/ finiteTick
    \/ finiteTimeout
    \/ finiteClock

SpecFinite ==
    /\ InitFinite
    /\ [][NextFinite]_vars
    /\ WF_vars(finiteTick)
    /\ WF_vars(finiteTimeout)
    /\ WF_vars(finiteClock)

---------------------------------------------------------------------------
(* A guest joins the lobby of the creator over a mesh that loses nothing:  *)
(* a message handed to send stays in flight until the other tab's          *)
(* handleNetworkMessage has run on it.  The timers of both tabs keep       *)
(* firing: the join effect's setTimeout and interval, the second send      *)
(* after an accepted join and the 2 s broadcastState of the creator.       *)

\* a tab that has connected to the room
connected(state) == state.roomId # NoRoom /\ state.status # "landing"

\* room.send: the message travels to every other tab that is connected
carried == {m \in Range(sent') : \E p \in PeerIds \ {m.from} : connected(gs'[p])}

reliable == net' = net \cup carried

\* the mesh adapter hands a message in flight to the other tab's handler
joinDeliver(msg) ==
    /\ msg \in net
    /\ \E p \in PeerIds : handleNetworkMessage(p, msg)
    /\ net' = (net \ {msg}) \cup carried
    /\ UNCHANGED <<match, mp>>

joinCreate ==
    handleCreateGame(CreatorId, JoinProfile, RoomDraw) /\ reliable /\ UNCHANGED <<match, mp>>

joinGame(g) ==
    /\ gs[CreatorId].status = "lobby"
    /\ handleJoinGame(g, JoinProfile, RoomCode)
    /\ reliable /\ UNCHANGED <<match, mp>>

joinFirst(g) == tryJoinFirst(g) /\ reliable /\ UNCHANGED <<match, mp>>

joinRetry(g) == tryJoin(g) /\ reliable /\ UNCHANGED <<match, mp>>

joinStale(g) == tryJoinStale(g) /\ reliable /\ UNCHANGED <<match, mp>>

joinGiveUp(g) == joinTimeout(g) /\ reliable /\ UNCHANGED <<match, mp>>

joinResend == resendStateUpdate(CreatorId) /\ reliable /\ UNCHANGED <<match, mp>>

joinBroadcast == broadcastState(CreatorId) /\ reliable /\ UNCHANGED <<match, mp>>

\* every message the two tabs send in this scenario
JoinTraffic ==
    {JoinMsg(g) : g \in GuestIds}
        \cup {StateUpdateFrom(CreatorId, lobbyAlone)}
        \cup {StateUpdateFrom(CreatorId, lobbyJoined(g)) : g \in GuestIds}

NextJoin ==
    \/ joinCreate
    \/ \E g \in GuestIds : joinGame(g)
    \/ \E g \in GuestIds : joinFirst(g)
    \/ \E g \in GuestIds : joinRetry(g)
    \/ \E g \in GuestIds : joinStale(g)
    \/ \E g \in GuestIds : joinGiveUp(g)
    \/ joinResend
    \/ joinBroadcast
    \/ \E msg \in net : joinDeliver(msg)

SpecJoin ==
    /\ Init
    /\ [][NextJoin]_vars
    /\ \A g \in GuestIds : WF_vars(joinFirst(g)) /\ WF_vars(joinRetry(g))
                           /\ WF_vars(joinStale(g)) /\ WF_vars(joinGiveUp(g))
    /\ WF_vars(joinResend)
    /\ WF_vars(joinBroadcast)
    /\ \A msg \in JoinTraffic : WF_vars(joinDeliver(msg))

---------------------------------------------------------------------------
(* A joined guest and the creator in the lobby over a best-effort mesh: a  *)
(* message may be lost, may stay in flight after it was handled (and so be *)
(* handled again) and may overtake another.  Both players toggle Ready;    *)
(* the creator's broadcastState interval keeps firing.                     *)

MaxSyncNet == 2         \* best-effort mesh: messages in flight at once

bestEffort == net' \in {n \in SUBSET (net \cup carried) : Cardinality(n) <= MaxSyncNet}

\* the guests have joined and clicked Ready, and have applied the creator's broadcast of it
InitSync ==
    /\ gs = [p \in PeerIds |-> IF p = CreatorId THEN lobbyWith(lobbyAlone, GuestIds)
                               ELSE updateState(InitialGameState,
                                                lobbyWith(lobbyAlone, GuestIds))]
    /\ pendingJoin = [p \in PeerIds |-> IF p = CreatorId THEN Null ELSE JoinProfile]
    /\ joinLoop = [p \in PeerIds |-> IF p = CreatorId THEN NoJoinLoop
                                     ELSE [NoJoinLoop EXCEPT !.attempts = 1, !.total = 1]]
    /\ loop = [p \in PeerIds |-> FALSE]
    /\ roundTimers = [p \in PeerIds |-> 0]
    /\ resendTimers = [p \in PeerIds |-> 0]
    /\ startGen = [p \in PeerIds |-> NoClosure]
    /\ bgGen = [p \in PeerIds |-> FALSE]
    /\ now = 0
    /\ net = {}
    /\ match = NoMatch
    /\ mp = InitialTransport
    /\ sent = <<>>
    /\ lastOp = Op("init", CreatorId)

\* a player clicks Ready
syncToggle(p) == handleToggleReady(p) /\ bestEffort /\ UNCHANGED <<match, mp>>

syncBroadcast == broadcastState(CreatorId) /\ bestEffort /\ UNCHANGED <<match, mp>>

\* a message in flight is handled and leaves the mesh
syncDeliver(msg) ==
    /\ msg \in net
    /\ \E p \in PeerIds : handleNetworkMessage(p, msg)
    /\ bestEffort
    /\ msg \notin net'
    /\ UNCHANGED <<match, mp>>

\* a message in flight is handled and a copy of it stays in flight
syncDuplicate(msg) ==
    /\ msg \in net
    /\ \E p \in PeerIds : handleNetworkMessage(p, msg)
    /\ bestEffort
    /\ msg \in net'
    /\ UNCHANGED <<match, mp>>

\* messages in flight are lost
syncLose ==
    /\ net' \in (SUBSET net) \ {net}
    /\ UNCHANGED <<gs, pendingJoin, joinLoop, loop, roundTimers, resendTimers, startGen,
                   bgGen, now, sent, lastOp, match, mp>>

NextSync ==
    \/ \E p \in PeerIds : syncToggle(p)
    \/ syncBroadcast
    \/ \E msg \in net : syncDeliver(msg)
    \/ \E msg \in net : syncDuplicate(msg)
    \/ syncLose

SpecSync == InitSync /\ [][NextSync]_vars /\ WF_vars(syncBroadcast)

---------------------------------------------------------------------------
(* Properties *)

host == gs[CreatorId]

PlayerIds == {CreatorId} \cup GuestIds

\* the step just taken was the host handling `action` for player id
hostHandled(action, id) ==
    /\ lastOp'.peer = CreatorId
    /\ lastOp'.op \in {"handleNetworkMessage", "handleAnswer"}
    /\ lastOp'.action = action
    /\ lastOp'.who = id

scoreOf(players, id) == PlayerOf(players, id).score

\* C1: Idempotent join.  The host's player list never holds two entries with
\* the same player id, whatever is delivered to it and whatever it does; and
\* once the host has handled a JOIN_REQUEST of a guest, the list holds exactly
\* one entry for that guest: it appends one for an absent id and leaves its
\* state alone for a listed one.
C1_IdempotentJoin ==
    /\ [](\A id \in PlayerIds : CountId(host.players, id) <= 1)
    /\ [][\A g \in GuestIds :
            (/\ lastOp'.op = "handleNetworkMessage"
             /\ lastOp'.peer = CreatorId
             /\ lastOp'.type = "JOIN_REQUEST"
             /\ lastOp'.who = g)
            => /\ CountId(host'.players, g) = 1
               /\ HasId(host.players, g) => host' = host]_vars

\* a JOIN_REQUEST of a guest that was already listed has been handled
C1_Witness ==
    /\ lastOp.op = "handleNetworkMessage"
    /\ lastOp.type = "JOIN_REQUEST"
    /\ sent = <<>>
    /\ CountId(host.players, lastOp.who) = 1

\* C2: At most one scoring per round.  When the host handles ANSWER_CORRECT
\* for a player whose hasAnsweredRound is already set, its state stays as it
\* was and it sends nothing; and a player's score only ever rises by 10, in
\* a step that sets that player's hasAnsweredRound from false to true.
C2_OneScoringPerRound ==
    [][\A id \in PlayerIds :
         /\ (/\ hostHandled("ANSWER_CORRECT", id)
             /\ HasId(host.players, id)
             /\ PlayerOf(host.players, id).hasAnsweredRound)
            => (host' = host /\ sent' = <<>>)
         /\ (/\ HasId(host.players, id)
             /\ HasId(host'.players, id)
             /\ scoreOf(host'.players, id) > scoreOf(host.players, id))
            => /\ hostHandled("ANSWER_CORRECT", id)
               /\ ~PlayerOf(host.players, id).hasAnsweredRound
               /\ PlayerOf(host'.players, id).hasAnsweredRound
               /\ scoreOf(host'.players, id) = scoreOf(host.players, id) + 10]_vars

\* a second ANSWER_CORRECT of a player who scored in this round has been handled
C2_Witness ==
    /\ lastOp.peer = CreatorId
    /\ lastOp.action = "ANSWER_CORRECT"
    /\ sent = <<>>
    /\ HasId(host.players, lastOp.who)
    /\ PlayerOf(host.players, lastOp.who).hasAnsweredRound
    /\ scoreOf(host.players, lastOp.who) = 10

C4_RoundAdvance ==
    [][lastOp'.op = "gameLoopTick"
       => IF /\ host.status = "playing"
             /\ \/ \A i \in DOMAIN host.players : host.players[i].hasAnsweredRound
                \/ now - host.roundStartTime >= host.settings.roundDuration
          THEN /\ host' = [host EXCEPT !.status = "round_result"]
               /\ roundTimers'[CreatorId] = roundTimers[CreatorId] + 1
          ELSE /\ host' = host
               /\ roundTimers' = roundTimers
               /\ sent' = <<>>]_vars

\* a tick ended a round on time, with a player who had not answered
C4_Witness ==
    /\ lastOp.op = "gameLoopTick"
    /\ host.status = "round_result"
    /\ now - host.roundStartTime >= host.settings.roundDuration
    /\ \E i \in DOMAIN host.players : ~host.players[i].hasAnsweredRound

\* the end-of-game evaluation has just run on the host
evaluated == lastOp'.op = "processNextRound"

atTarget(state) ==
    {i \in DOMAIN state.players : state.players[i].score >= state.settings.pointsToWin}

\* exactly one player holds the highest score, and it is at or above pointsToWin
soleLeader(state) ==
    \E i \in atTarget(state) :
        \A j \in DOMAIN state.players \ {i} : state.players[j].score < state.players[i].score

\* two or more players at or above pointsToWin share the highest score
tiedLeaders(state) ==
    \E i, j \in atTarget(state) :
        /\ i # j
        /\ state.players[i].score = state.players[j].score
        /\ \A k \in DOMAIN state.players : state.players[k].score <= state.players[i].score

lastQuestion(state) == state.currentQuestionIndex >= Len(state.questions) - 1

advanced == host'.status = "playing"
            /\ host'.currentQuestionIndex = host.currentQuestionIndex + 1

\* C5 as stated: processNextRound moves the host to game_over exactly when
\* exactly one player is at or above pointsToWin or the questions are
\* exhausted, and otherwise to playing with the index increased by 1.
C5_AsStated ==
    [][evaluated
       => IF Cardinality(atTarget(host)) = 1 \/ lastQuestion(host)
          THEN host'.status = "game_over"
          ELSE advanced]_vars

\* C5: End-of-game rule.  processNextRound moves the host to game_over
\* exactly when (i) at least one player is at or above pointsToWin and exactly
\* one player holds the highest score, or (ii) currentQuestionIndex is at or
\* past the last index of the question list; in every other case it moves to
\* playing with currentQuestionIndex increased by exactly 1.
C5_EndOfGameRule ==
    [][evaluated
       => IF soleLeader(host) \/ lastQuestion(host)
          THEN host'.status = "game_over" /\ host'.currentQuestionIndex = host.currentQuestionIndex
          ELSE advanced]_vars

\* the game has ended with two players at or above pointsToWin, one of them ahead
C5_Witness ==
    /\ lastOp.op = "processNextRound"
    /\ host.status = "game_over"
    /\ Cardinality(atTarget(host)) > 1
    /\ soleLeader(host)
    /\ ~lastQuestion(host)

\* C6 as stated: with two or more players tied at or above pointsToWin and
\* nobody above them, the evaluation does not move the host to game_over.
C6_AsStated ==
    [][(evaluated /\ tiedLeaders(host)) => host'.status # "game_over"]_vars

\* C6: Tie continuation.  With two or more players tied at or above
\* pointsToWin and nobody above them, the evaluation moves the host to
\* playing with the next question, unless the current question is the last
\* of the list: then it moves the host to game_over despite the tie.
C6_TieContinuation ==
    [][(evaluated /\ tiedLeaders(host))
       => IF lastQuestion(host) THEN host'.status = "game_over" ELSE advanced]_vars

\* the game went on to another question after a tie at or above pointsToWin
C6_Witness ==
    /\ lastOp.op = "processNextRound"
    /\ host.status = "playing"
    /\ tiedLeaders(host)

\* the scenario of C8 so far: pointsToWin 50, the host and one guest, more
\* than 5 questions, the guest has scored in every round and the host in none
scenario(state, g) ==
    /\ state.settings.pointsToWin = 50
    /\ Len(state.players) = 2
    /\ Len(state.questions) > 5
    /\ HasId(state.players, g)
    /\ scoreOf(state.players, CreatorId) = 0
    /\ scoreOf(state.players, g) = 10 * (state.currentQuestionIndex + 1)

\* C8: End-to-end scenario.  With pointsToWin = 50, the host and one guest
\* and more than 5 questions, as long as the guest has scored in every round
\* and the host in none: the guest's ANSWER_CORRECT in round k brings its
\* score to 10*k, the evaluation after each of rounds 1..4 moves the host to
\* playing with the next question, and the evaluation after round 5 moves it
\* to game_over.
C8_EndToEnd ==
    [][\A g \in GuestIds :
         /\ (/\ hostHandled("ANSWER_CORRECT", g)
             /\ host.status = "playing"
             /\ host.settings.pointsToWin = 50
             /\ HasId(host.players, g)
             /\ ~PlayerOf(host.players, g).hasAnsweredRound
             /\ scoreOf(host.players, g) = 10 * host.currentQuestionIndex)
            => /\ scoreOf(host'.players, g) = 10 * (host.currentQuestionIndex + 1)
               /\ host'.status = "playing"
         /\ (evaluated /\ host.status = "round_result" /\ scenario(host, g))
            => IF host.currentQuestionIndex < 4
               THEN advanced /\ scoreOf(host'.players, g) = 10 * host'.currentQuestionIndex
               ELSE /\ host.currentQuestionIndex = 4
                    /\ host'.status = "game_over"
                    /\ scoreOf(host'.players, g) = 50]_vars

\* the game has ended after round 5 with the guest at 50 and the host at 0
C8_Witness ==
    /\ lastOp.op = "processNextRound"
    /\ host.status = "game_over"
    /\ host.currentQuestionIndex = 4
    /\ \E g \in GuestIds : scenario(host, g)

\* tab g has just handled a message of one of these types
received(g, types) ==
    /\ lastOp'.op = "handleNetworkMessage"
    /\ lastOp'.peer = g
    /\ lastOp'.type \in types

\* g is listed in its own copy of the state and is not its host
joinedGuest(g) == HasId(gs[g].players, g) /\ ~isLocalHost(gs[g].players, g)

\* C7: Full-snapshot replacement.  Whenever a STATE_UPDATE is delivered to a
\* tab, the tab's state is afterwards equal to the payload.
C7_FullSnapshotReplacement ==
    [][\A g \in GuestIds : \A msg \in GuestInbox(g) :
         (msg.type = "STATE_UPDATE" /\ handleNetworkMessage(g, msg))
         => gs'[g] = msg.payload]_vars

\* C9: Only the host processes intents.  When a tab that does not resolve
\* itself as host handles a JOIN_REQUEST, a PLAYER_ACTION or a
\* PLAYER_UPDATE, its state stays as it was and it sends nothing.
C9_OnlyHostProcessesIntents ==
    [][\A g \in GuestIds :
         (/\ received(g, {"JOIN_REQUEST", "PLAYER_ACTION", "PLAYER_UPDATE"})
          /\ ~isLocalHost(gs[g].players, g))
         => (gs'[g] = gs[g] /\ sent' = <<>>)]_vars

\* a joined guest in a running round has handled another guest's PLAYER_ACTION
C9_Witness ==
    /\ lastOp.op = "handleNetworkMessage"
    /\ lastOp.type = "PLAYER_ACTION"
    /\ lastOp.peer \in GuestIds
    /\ lastOp.who = Bystander
    /\ joinedGuest(lastOp.peer)
    /\ gs[lastOp.peer].status = "playing"
    /\ sent = <<>>

ownReadyFlipped(players, g) ==
    [i \in DOMAIN players |->
        IF players[i].id = g THEN [players[i] EXCEPT !.isReady = ~players[i].isReady]
        ELSE players[i]]

ownProfileSet(players, g, prof) ==
    [i \in DOMAIN players |->
        IF players[i].id = g
        THEN [players[i] EXCEPT !.name = prof.name, !.avatar = prof.avatar]
        ELSE players[i]]

C11_BroadcastApplied ==
    [][\A g \in GuestIds : \A state \in HostSnapshots(g) :
         (joinedGuest(g) /\ handleNetworkMessage(g, broadcast(CreatorId, state)))
         => gs'[g] = state]_vars

\* the host's state changed in its player list only, which kept its length
onlyPlayersChanged ==
    /\ host' = [host EXCEPT !.players = host'.players]
    /\ Len(host'.players) = Len(host.players)

\* C12: ANSWER_CORRECT effect.  When the host handles ANSWER_CORRECT for a
\* listed player whose hasAnsweredRound is false, that player's score rises
\* by exactly 10 and its hasAnsweredRound becomes true (its answer time and
\* answer text are recorded, the rest of its record stays), every other
\* player's record and every other field of the state are unchanged; for an
\* unlisted player or one whose hasAnsweredRound is true the whole state is
\* unchanged.
C12_AnswerCorrectEffect ==
    [][\A id \in PlayerIds :
         hostHandled("ANSWER_CORRECT", id)
         => IF HasId(host.players, id) /\ ~PlayerOf(host.players, id).hasAnsweredRound
            THEN /\ onlyPlayersChanged
                 /\ \A i \in DOMAIN host.players :
                       IF host.players[i].id = id
                       THEN /\ host'.players[i].score = host.players[i].score + 10
                            /\ host'.players[i].hasAnsweredRound
                            /\ host'.players[i] =
                                 [host.players[i] EXCEPT
                                    !.score = host'.players[i].score,
                                    !.hasAnsweredRound = TRUE,
                                    !.answerTime = host'.players[i].answerTime,
                                    !.finalAnswer = host'.players[i].finalAnswer]
                       ELSE host'.players[i] = host.players[i]
            ELSE host' = host]_vars

\* a guest's first ANSWER_CORRECT of the round has been handled next to another player
C12_Witness ==
    /\ lastOp.peer = CreatorId
    /\ lastOp.action = "ANSWER_CORRECT"
    /\ lastOp.who \in GuestIds
    /\ sent # <<>>
    /\ Len(host.players) > 1
    /\ scoreOf(host.players, lastOp.who) = 10
    /\ scoreOf(host.players, CreatorId) = 0

\* C13: ANSWER_WRONG frame.  When the host handles ANSWER_WRONG, in any
\* state and for any player, no score and no hasAnsweredRound changes, and
\* status, currentQuestionIndex, questions, settings and every other field
\* outside the player list are unchanged; only the acting player's recorded
\* guess (lastWrongGuess and finalAnswer) changes.
C13_AnswerWrongFrame ==
    [][\A id \in PlayerIds :
         hostHandled("ANSWER_WRONG", id)
         => /\ onlyPlayersChanged
            /\ \A i \in DOMAIN host.players :
                  IF host.players[i].id = id
                  THEN host'.players[i] =
                         [host.players[i] EXCEPT
                            !.lastWrongGuess = host'.players[i].lastWrongGuess,
                            !.finalAnswer = host'.players[i].finalAnswer]
                  ELSE host'.players[i] = host.players[i]]_vars

\* a guest's wrong guess has been recorded during a round it has not answered
C13_Witness ==
    /\ lastOp.peer = CreatorId
    /\ lastOp.action = "ANSWER_WRONG"
    /\ lastOp.who \in GuestIds
    /\ host.status = "playing"
    /\ HasId(host.players, lastOp.who)
    /\ ~PlayerOf(host.players, lastOp.who).hasAnsweredRound
    /\ PlayerOf(host.players, lastOp.who).finalAnswer = "mars"

\* C14: First-update acceptance.  A tab that has asked to join and whose
\* player list is still empty applies a STATE_UPDATE that carries the
\* sender's id whatever the snapshot's status and player list are (lobby or
\* a running or finished game, with or without the tab itself), and from
\* then on resolves the roles from the received list: the sender is the
\* host, the tab is not.
C14_FirstUpdateAccepted ==
    [][\A g \in GuestIds : \A state \in HostSnapshots(g) :
         (/\ Len(gs[g].players) = 0
          /\ handleNetworkMessage(g, StateUpdateFrom(CreatorId, state)))
         => /\ gs'[g] = state
            /\ isLocalHost(gs'[g].players, CreatorId)
            /\ ~isLocalHost(gs'[g].players, g)]_vars

\* a joining tab holds the snapshot of a running game that does not list it
C14_Witness ==
    /\ lastOp.op = "handleNetworkMessage"
    /\ lastOp.type = "STATE_UPDATE"
    /\ lastOp.peer \in GuestIds
    /\ gs[lastOp.peer] = playingAlone
    /\ pendingJoin[lastOp.peer] # Null

\* C15: Host re-send on join.  Whenever the host handles a JOIN_REQUEST of a
\* guest, listed already or not, it sends its current state as a
\* STATE_UPDATE; and for a guest it had not listed it schedules a second
\* send.
C15_ResendOnJoin ==
    [][\A g \in GuestIds :
         (/\ lastOp'.op = "handleNetworkMessage"
          /\ lastOp'.peer = CreatorId
          /\ lastOp'.type = "JOIN_REQUEST"
          /\ lastOp'.who = g)
         => /\ sent' = <<StateUpdateFrom(CreatorId, host')>>
            /\ ~HasId(host.players, g) => resendTimers'[CreatorId] > 0]_vars

\* tab g has just sent a JOIN_REQUEST
joinRequested(g) ==
    \E i \in DOMAIN sent' : sent'[i].type = "JOIN_REQUEST" /\ sent'[i].senderId = g

\* C16: Join retry stops on confirmation.  A tab whose own player list holds
\* its id sends no JOIN_REQUEST, whichever of its timers fires.
C16_RetryStopsWhenListed ==
    [][\A g \in GuestIds : HasId(gs[g].players, g) => ~joinRequested(g)]_vars

\* C17: Join retry is bounded.  A tab that is not listed has sent at most
\* maxAttempts (20) JOIN_REQUESTs since it asked to join, whatever
\* STATE_UPDATEs it has received.
C17_RetryBounded ==
    \A g \in GuestIds : ~HasId(gs[g].players, g) => joinLoop[g].total <= maxAttempts

---------------------------------------------------------------------------
(* C18: single-host invariant *)

leftLanding(p) == gs[p].status # "landing"

hostsOf(players) == {i \in DOMAIN players : players[i].isHost}

oneHostListed(p) ==
    Len(gs[p].players) > 0 => Cardinality(hostsOf(gs[p].players)) = 1

\* C18 (as stated): in every reachable state of every peer that has left
\* landing, roomId is non-empty and a non-empty player list has exactly one
\* player with isHost = true.
C18_SingleHost ==
    \A p \in PeerIds : leftLanding(p) => gs[p].roomId # NoRoom /\ oneHostListed(p)

---------------------------------------------------------------------------
(* C19: per-round flag reset *)

startsQuestion ==
    /\ host'.status = "playing"
    /\ \/ host.status \in {"lobby", "generating"}
       \/ /\ host.status = "round_result"
          /\ host'.currentQuestionIndex = host.currentQuestionIndex + 1

noneAnswered(state) ==
    \A i \in DOMAIN state.players : ~state.players[i].hasAnsweredRound

stateBroadcast(out, state) ==
    \E k \in DOMAIN out : out[k].type = "STATE_UPDATE" /\ out[k].payload = state

\* C19: every step in which the host starts a question (enters playing at
\* game start from lobby or generating, or from round_result with the next
\* index) leaves hasAnsweredRound = false for every listed player, late
\* joiners included, and that state is the one broadcast.
C19_FlagsResetOnQuestionStart ==
    [][startsQuestion => noneAnswered(host') /\ stateBroadcast(sent', host')]_vars

\* a next round has started with a late joiner listed, after an answer
C19_Witness ==
    /\ lastOp.op = "processNextRound"
    /\ host.status = "playing"
    /\ host.currentQuestionIndex = 1
    /\ \E g \in GuestIds : HasId(host.players, g) /\ scoreOf(host.players, g) > 0
    /\ noneAnswered(host)

---------------------------------------------------------------------------
(* C20: settings mutability *)

settingsChanged == host'.settings # host.settings

ownSettingsUpdate ==
    /\ lastOp'.op = "handleUpdateSettings"
    /\ lastOp'.peer = CreatorId
    /\ host.status = "lobby"
    /\ isLocalHost(host.players, CreatorId)

\* C20: on the host, settings change only in a step of the host's own
\* settings update taken while its status is lobby: no message receipt, no
\* timer and no action taken in another status changes them, and the update
\* changes nothing but the settings.
C20_SettingsMutability ==
    [][/\ settingsChanged => ownSettingsUpdate
       /\ lastOp'.op = "handleUpdateSettings"
            => host' = [host EXCEPT !.settings = host'.settings]]_vars

\* the host has changed a setting in its lobby with a guest listed
C20_Witness ==
    /\ lastOp.op = "handleUpdateSettings"
    /\ host.status = "lobby"
    /\ host.settings # INITIAL_SETTINGS
    /\ Len(host.players) > 1

---------------------------------------------------------------------------
(* C21: append-only questions *)

inProgress(state) == state.status \in {"playing", "round_result"}

isPrefix(s, t) == Len(s) <= Len(t) /\ SubSeq(t, 1, Len(s)) = s

\* C21 (as stated): on the host, while a game is in progress (status playing
\* or round_result before and after the step), the question list after a
\* step has the list before it as a prefix: questions are only appended.
C21_AppendOnly ==
    [][inProgress(host) /\ inProgress(host') => isPrefix(host.questions, host'.questions)]_vars

---------------------------------------------------------------------------
(* C22: no recency check on guests *)

\* the host held `a` before it held `b`, as far as a guest's view shows
viewBefore(a, b) ==
    \/ a.currentQuestionIndex < b.currentQuestionIndex
    \/ /\ a.currentQuestionIndex = b.currentQuestionIndex
       /\ scoreOf(a.players, CreatorId) < scoreOf(b.players, CreatorId)

\* C22: No recency check.  A tab that is not the host of its list applies
\* every STATE_UPDATE that carries the sender's id, whatever state it holds:
\* also a snapshot the host produced before the one the tab holds, so that
\* the tab's view (score, currentQuestionIndex, status) moves backwards.
C22_NoRecencyCheck ==
    [][\A g \in GuestIds : \A state \in HostSnapshots(g) :
         (/\ ~isLocalHost(gs[g].players, g)
          /\ handleNetworkMessage(g, StateUpdateFrom(CreatorId, state)))
         => gs'[g] = state]_vars

\* a guest holds the snapshot of the second round, with the host's score, and
\* the delivery of the snapshot of the first round takes it back to it
C22_Witness ==
    \E g \in GuestIds :
        /\ gs[g] = nextRound(g)
        /\ viewBefore(playingJoined(g), gs[g])
        /\ ENABLED (/\ handleNetworkMessage(g, StateUpdateFrom(CreatorId, playingJoined(g)))
                    /\ gs'[g] = playingJoined(g)
                    /\ gs'[g].currentQuestionIndex < gs[g].currentQuestionIndex
                    /\ scoreOf(gs'[g].players, CreatorId) < scoreOf(gs[g].players, CreatorId))

---------------------------------------------------------------------------
(* C23: idempotent handlers under duplication *)

PlayerActions == {msg \in GuestMessages : msg.type = "PLAYER_ACTION"}

\* the host's state after one more delivery of msg
deliveredAgain(state, msg) == onMessage(state, CreatorId, msg, now)

\* the host's state when the round ends and the next one starts
afterNextRound(state) == processNextRound(roundEndState(state), now)

\* C23 (as stated): delivering the same PLAYER_ACTION to the host twice
\* leaves it in the state one delivery leaves it in, when the second copy
\* follows at once and when it arrives after the next round has started.
C23_IdempotentActions ==
    /\ [][\A msg \in PlayerActions :
            handleNetworkMessage(CreatorId, msg) => deliveredAgain(host', msg) = host']_vars
    /\ [](\A msg \in PlayerActions :
            host.status = "playing" /\ isLocalHost(host.players, CreatorId)
                => LET next == afterNextRound(deliveredAgain(host, msg))
                   IN  deliveredAgain(next, msg) = next)

---------------------------------------------------------------------------
(* C24: malformed messages *)

MalformedFor(p) == IF p = CreatorId THEN HostMalformed ELSE GuestMalformed(p)

\* C24: Malformed messages are dropped without effect.  When a tab handles a
\* message without type or without senderId, a JOIN_REQUEST whose payload lacks
\* name or avatar, a PLAYER_ACTION whose payload lacks action, or a
\* STATE_UPDATE whose payload is not an object, its GameState (and every other
\* tab's) is unchanged, nothing is sent and no re-send is scheduled.
C24_MalformedDropped ==
    [][\A p \in PeerIds : \A msg \in MalformedFor(p) :
         (lastOp' = MsgOp(p, msg) /\ handleNetworkMessage(p, msg))
         => /\ gs' = gs
            /\ sent' = <<>>
            /\ resendTimers' = resendTimers]_vars

\* the host has handled a JOIN_REQUEST of a guest it does not list, and still
\* does not list it: the payload lacked a field
C24_Witness ==
    /\ lastOp.op = "handleNetworkMessage"
    /\ lastOp.peer = CreatorId
    /\ lastOp.type = "JOIN_REQUEST"
    /\ lastOp.who \in GuestIds
    /\ isLocalHost(host.players, CreatorId)
    /\ ~HasId(host.players, lastOp.who)
    /\ sent = <<>>

---------------------------------------------------------------------------
(* C25: trusted scoring assertion *)

GuessTexts == {"mars", "venus", "x", ""}     \* data of an ANSWER_CORRECT

\* what the claim compares: scores, completion flags, status and index
scoringView(state) ==
    [scores |-> [i \in DOMAIN state.players |-> state.players[i].score],
     flags  |-> [i \in DOMAIN state.players |-> state.players[i].hasAnsweredRound],
     ids    |-> [i \in DOMAIN state.players |-> state.players[i].id],
     status |-> state.status,
     index  |-> state.currentQuestionIndex]

\* C25: Trusted scoring assertion.  Whenever the host handles an
\* ANSWER_CORRECT, the scores, hasAnsweredRound flags, status and index it
\* is left with are those it would have been left with for any other data
\* text of the action, the empty text included.
C25_GuessTextIgnored ==
    [][\A id \in PlayerIds :
         hostHandled("ANSWER_CORRECT", id)
         => \A d \in GuessTexts :
               scoringView(host')
                 = scoringView(handlePlayerAction(host, id, "ANSWER_CORRECT", d, now))]_vars

\* a guest's ANSWER_CORRECT has scored in a running round
C25_Witness ==
    /\ lastOp.peer = CreatorId
    /\ lastOp.action = "ANSWER_CORRECT"
    /\ lastOp.who \in GuestIds
    /\ host.status = "playing"
    /\ HasId(host.players, lastOp.who)
    /\ PlayerOf(host.players, lastOp.who).hasAnsweredRound
    /\ PlayerOf(host.players, lastOp.who).finalAnswer = "mars"

---------------------------------------------------------------------------
(* C26, C27: fuzzy matching *)

\* C26 (as stated): checkAnswer(input, question) is true whenever input is
\* exactly the question's canonical answer, whatever its characters are.
C26_ExactAccepted ==
    match.called /\ match.input = match.question.answer => match.result

\* the answer and the accepted aliases of a question
targets(question) ==
    {question.answer} \cup {question.acceptedAnswers[i] : i \in DOMAIN question.acceptedAnswers}

\* the similarity of the cleaned strings stays below the threshold of their
\* length even with one edit fewer
farFrom(input, target) ==
    LET maxLen == maxLength(clean(input), clean(target))
        dist == levenshtein(clean(input), clean(target))
        need == IF maxLen >= LongAnswerLength THEN LongThreshold ELSE StandardThreshold
    IN  IF maxLen <= ShortAnswerLength THEN dist - 1 > ShortAnswerEdits
        ELSE 100 * (maxLen - (dist - 1)) < need * maxLen

farFromAll(input, question) ==
    \A target \in targets(question) : farFrom(input, target)

RECURSIVE isSubsequence(_, _)
isSubsequence(part, whole) ==
    IF part = <<>> THEN TRUE
    ELSE IF whole = <<>> THEN FALSE
    ELSE IF Head(part) = Head(whole) THEN isSubsequence(Tail(part), Tail(whole))
    ELSE isSubsequence(part, Tail(whole))

\* the cleaned input, of two characters or more, is contained in a cleaned
\* target; or, for a question without aliases, it is contained in the
\* lower-cased answer or picks first letters of the answer's words in order
abbreviates(input, question) ==
    LET typed == clean(input)
        answer == toLowerCase(trim(question.answer))
        words == split(answer, <<>>)
        firstLetters == [i \in DOMAIN words |-> words[i][1]]
    IN  /\ typed # <<>>
        /\ \/ /\ Len(typed) >= MinSubstringLength
              /\ \E target \in targets(question) : includes(clean(target), typed)
           \/ /\ question.acceptedAnswers = <<>>
              /\ \/ Len(typed) >= MinSubstringLength /\ includes(answer, typed)
                 \/ /\ Len(words) > 1
                    /\ Len(typed) <= Len(words)
                    /\ isSubsequence(typed, firstLetters)

\* C27 (as stated): an input that is more than one edit below the similarity
\* threshold of the answer and of every alias is rejected by checkAnswer.
C27_DistantRejected ==
    match.called /\ farFromAll(match.input, match.question) => ~match.result

\* C27 (amended): an input that is more than one edit below the similarity
\* threshold of the answer and of every alias, and that is not an abbreviation
\* of one of them, is rejected by checkAnswer; "titanik" is accepted for "Titanic".
C27_DistantRejectedUnlessAbbreviation ==
    /\ match.called /\ farFromAll(match.input, match.question)
          /\ ~abbreviates(match.input, match.question)
       => ~match.result
    /\ match.called /\ match.input = titanik /\ match.question.answer = Titanic
       => match.result

\* "boat movie" was checked against "Titanic" and rejected
C27_Witness ==
    /\ match.called
    /\ match.input = boatMovie
    /\ match.question = [answer |-> Titanic, acceptedAnswers |-> <<>>]
    /\ farFromAll(match.input, match.question)
    /\ ~abbreviates(match.input, match.question)
    /\ ~match.result

---------------------------------------------------------------------------
(* C28, C29, C30: the transport adapter *)

connectCalled(roomId) == mp'.call = [op |-> "connect", roomId |-> roomId]

adapterFields(m) ==
    <<m.room, m.currentRoomId, m.sendAction, m.isConnected, m.peerIds,
      m.reconnectAttempts, m.connectionTimeout, m.peerCheckInterval, m.joined>>

\* C28: connect(roomId, ...) while joined to roomId neither leaves nor joins a
\* room and leaves the peer set, the readiness flag and the reconnect counter
\* as they were; connect with another roomId leaves the old room; the adapter
\* is in at most one room at any time.
C28_ConnectIdempotent ==
    /\ [][\A roomId \in Rooms :
             connectCalled(roomId) /\ mp.room # NullRoom =>
                IF mp.currentRoomId = roomId
                THEN adapterFields(mp') = adapterFields(mp)
                ELSE mp.room \notin mp'.joined /\ mp'.joined \subseteq {roomId}]_vars
    /\ [](Cardinality(mp.joined) <= 1)

\* connect was called for the room the adapter is in, with a peer tracked
C28_Witness ==
    /\ mp.call = [op |-> "connect", roomId |-> OtherRoom]
    /\ mp.room = OtherRoom
    /\ mp.joined = {OtherRoom}
    /\ mp.peerIds # {}
    /\ mp.isConnected

\* C29 (as stated): while every joinRoom call since the caller's connect has
\* thrown, the adapter has called joinRoom at most maxReconnectAttempts times,
\* every pending retry waits 1000 * 2^k ms (at most 10 s) after the k-th
\* failure, and after the last attempt no retry is pending and the adapter is
\* not connected.
C29_BoundedReconnect ==
    mp.allFailed =>
       /\ mp.joinCalls <= maxReconnectAttempts
       /\ \A i \in DOMAIN mp.retryTimers :
             mp.retryTimers[i].delay = backoff(mp.retryTimers[i].after)
       /\ mp.joinCalls >= maxReconnectAttempts =>
             mp.retryTimers = <<>> /\ ~mp.isConnected

sendCalled == mp'.call.op = "send"

\* C30: send in a joined room hands the message to the transport exactly once
\* and returns true, whether or not a peer is known or the connection is
\* marked ready; with no room joined, or when the transport throws, it hands
\* nothing over and returns false; it changes no field of the adapter.
C30_SendNotGated ==
    [][sendCalled =>
          /\ mp.joined # {} /\ ~mp'.threw => mp'.returned /\ mp'.handed = 1
          /\ mp.joined = {} \/ mp'.threw => ~mp'.returned /\ mp'.handed = 0
          /\ mp.joined = {} => ~mp'.threw
          /\ adapterFields(mp') = adapterFields(mp)]_vars

\* send returned true in a room without a known peer, before the connection
\* was marked ready
C30_Witness ==
    /\ mp.call.op = "send"
    /\ mp.joined # {}
    /\ mp.peerIds = {}
    /\ ~mp.isConnected
    /\ mp.returned
    /\ mp.handed = 1

---------------------------------------------------------------------------
(* C40: the adapter after disconnect *)

getConnectionState(m) ==
    [isConnected |-> m.isConnected, peerCount |-> Cardinality(m.peerIds),
     roomId |-> m.currentRoomId]

Disconnected == [isConnected |-> FALSE, peerCount |-> 0, roomId |-> NullRoom]

\* C40 (as stated): after disconnect() the adapter reports not connected, no
\* peer and no room, and is in no room; and while it does, only a call of
\* connect changes that: no timeout or callback of an earlier connect marks
\* it connected or joins a room.
C40_QuietAfterDisconnect ==
    /\ [](mp.call.op = "disconnect" =>
             getConnectionState(mp) = Disconnected /\ mp.joined = {})
    /\ [][/\ getConnectionState(mp) = Disconnected
          /\ mp.joined = {}
          /\ mp'.call.op # "connect"
          => getConnectionState(mp') = Disconnected /\ mp'.joined = {}]_vars

---------------------------------------------------------------------------
(* C31: the host's round state machine *)

RoundMachine ==
    {<<"lobby", "generating">>, <<"lobby", "playing">>, <<"generating", "playing">>,
     <<"playing", "round_result">>, <<"round_result", "playing">>,
     <<"round_result", "game_over">>, <<"playing", "game_over">>,
     <<"game_over", "lobby">>}

\* C31 (as stated): the host's status changes only along the edges of the
\* round state machine; an end-of-game evaluation happens only in
\* round_result; and currentQuestionIndex changes only by one, when a
\* round_result ends, or to 0 when a game starts.
C31_RoundMachineOnly ==
    /\ [][host'.status # host.status => <<host.status, host'.status>> \in RoundMachine]_vars
    /\ [][lastOp' = Op("processNextRound", CreatorId) => host.status = "round_result"]_vars
    /\ [][host'.currentQuestionIndex # host.currentQuestionIndex =>
             \/ /\ host.status = "round_result"
                /\ host'.currentQuestionIndex = host.currentQuestionIndex + 1
             \/ /\ host.status \in {"lobby", "generating"}
                /\ host'.status = "playing"
                /\ host'.currentQuestionIndex = 0]_vars

---------------------------------------------------------------------------
(* C32: a classic game ends *)

\* C32: with a classic deck and timers that keep firing, a host that is
\* playing reaches game_over, whether or not anybody answers and however long
\* a tie lasts; and no round is played beyond the last question of the deck.
C32_FiniteDeckTerminates ==
    /\ (host.status = "playing") ~> (host.status = "game_over")
    /\ [](host.status \in {"playing", "round_result"} =>
             host.currentQuestionIndex < Len(host.questions))

\* the deck ran out with every player tied at or above pointsToWin
C32_Witness ==
    /\ host.status = "game_over"
    /\ host.currentQuestionIndex = Len(host.questions) - 1
    /\ Len(host.players) > 1
    /\ \A i \in DOMAIN host.players :
          /\ host.players[i].score >= host.settings.pointsToWin
          /\ host.players[i].score = host.players[1].score

---------------------------------------------------------------------------
(* C35: background replenishment *)

roundEnds ==
    /\ lastOp' = Op("gameLoopTick", CreatorId)
    /\ host.status = "playing"
    /\ allAnswered(host) \/ timeUp(host, now)

---------------------------------------------------------------------------
(* C36: points and the answering window *)

\* C36 (as stated): on the host a player's score increases only in a step
\* taken while status is playing.
C36_PointsOnlyWhilePlaying ==
    [][(\E id \in PlayerIds :
           /\ HasId(host.players, id) /\ HasId(host'.players, id)
           /\ scoreOf(host'.players, id) > scoreOf(host.players, id))
          => host.status = "playing"]_vars

---------------------------------------------------------------------------
(* C37: the host's player list *)

\* C37 (as stated): a player id in the host's list is in the host's list
\* after every host step.
C37_PlayersNeverDropped ==
    [][\A id \in PlayerIds : HasId(host.players, id) => HasId(host'.players, id)]_vars

---------------------------------------------------------------------------
(* C38: one host per room *)

updateDelivered(p) ==
    /\ lastOp'.op = "handleNetworkMessage"
    /\ lastOp'.type = "STATE_UPDATE"
    /\ lastOp'.peer = p

\* C38: no peer other than the creator resolves itself as host, and a
\* STATE_UPDATE delivered to the creator while its player list is non-empty
\* leaves the creator's state as it was.
C38_NoSplitBrain ==
    /\ [](\A p \in PeerIds \ {CreatorId} : ~isLocalHost(gs[p].players, p))
    /\ [][updateDelivered(CreatorId) /\ Len(host.players) > 0 => host' = host]_vars

\* the creator, playing, has just been handed another tab's snapshot and
\* still resolves itself as host of its own game
C38_Witness ==
    /\ lastOp.op = "handleNetworkMessage"
    /\ lastOp.type = "STATE_UPDATE"
    /\ lastOp.peer = CreatorId
    /\ host.status = "playing"
    /\ host.settings # foreignLobby.settings
    /\ isLocalHost(host.players, CreatorId)

---------------------------------------------------------------------------
(* C39: the current question exists *)

\* C39: on every peer that is playing or showing a round's result,
\* 0 <= currentQuestionIndex < questions.length.
C39_IndexInRange ==
    \A p \in PeerIds :
       gs[p].status \in {"playing", "round_result"} =>
          /\ 0 <= gs[p].currentQuestionIndex
          /\ gs[p].currentQuestionIndex < Len(gs[p].questions)

\* the host plays the last question of a generated deck that was replenished
C39_Witness ==
    /\ host.status = "playing"
    /\ host.settings.deckType = "ai"
    /\ host.currentQuestionIndex > 0
    /\ host.currentQuestionIndex = Len(host.questions) - 1

\* C33: Join liveness.  On a mesh that loses nothing, a guest that has joined
\* the room of a creator in lobby is eventually listed exactly once by the
\* creator and eventually lists itself; from then on its retry loop is
\* stopped: while it lists itself, none of its timers runs tryJoin's send.
C33_JoinLiveness ==
    /\ \A g \in GuestIds : (gs[g].status = "lobby") ~> (CountId(host.players, g) = 1)
    /\ \A g \in GuestIds : (gs[g].status = "lobby") ~> HasId(gs[g].players, g)
    /\ [][\A g \in GuestIds : HasId(gs[g].players, g) => ~joinRequested(g)]_vars

\* from here on the creator's state does not change, no guest clicks and no
\* message is handled twice
settled ==
    /\ host' = host
    /\ ~\E g \in GuestIds : handleToggleReady(g)
    /\ ~\E msg \in net : syncDuplicate(msg)

\* guest g handles a STATE_UPDATE of broadcastState that carries the creator's state
rebroadcastDelivered(g) ==
    /\ StateUpdateFrom(CreatorId, host) \in net
    /\ handleNetworkMessage(g, StateUpdateFrom(CreatorId, host))

converged == \A g \in GuestIds : joinedGuest(g) => gs[g] = host

\* C34: Eventual convergence.  If from some point on the creator's state does
\* not change and the guests do nothing themselves, and the periodic
\* re-broadcasts keep being delivered to every guest, then from some point on the state of
\* every joined guest equals the creator's, whatever was lost, handled twice
\* or out of order before.
C34_EventualConvergence ==
    (<>[][settled]_vars /\ \A g \in GuestIds : []<><<rebroadcastDelivered(g)>>_vars)
        => <>[]converged

\* a guest that differed from the creator has caught up by a re-broadcast
C34_Witness ==
    \E g \in GuestIds :
        /\ joinedGuest(g)
        /\ gs[g] = host
        /\ host # lobbyWith(lobbyAlone, GuestIds)
        /\ lastOp = MsgOp(g, StateUpdateFrom(CreatorId, host))

====
